---- MODULE Spec2Model ----
(***************************************************************************)
(* Model of the query-resolution layer of langchain-python-api.            *)
(*                                                                         *)
(*  StreamSpec    src/src/api/main.py (process_query_with_updates) driving *)
(*                src/src/sql_agent/model.py (SQLAgent.process_query,      *)
(*                get_final_answer), and the patched agent of              *)
(*                src/tests/test_api.py.                                   *)
(*  WorkflowSpec  src/prototype/sql_agent_langgraph.py (the correction     *)
(*                workflow, cache_query, the feedback ledger).             *)
(*  CacheTableSpec, LedgerSpec  the statements of the same prototype on    *)
(*                its tables query_cache and query_feedback.               *)
(*  RateSpec, ConcurrentRateSpec  src/prototype/sql_agent_anthropic_v2.py  *)
(*                (rate_limited_agent_invoke).                             *)
(*  ContextSpec   src/src/sql_agent/model.py (manage_context,              *)
(*                _update_context, _update_conversation_history).          *)
(*  SessionSpec   sessions calling manage_context on the one sql_agent of  *)
(*                src/src/api/main.py.                                     *)
(*  InterruptSpec WorkflowSpec with a KeyboardInterrupt inside             *)
(*                db_query_tool.                                           *)
(*  ConcurrentLedgerSpec  record_query_success / record_query_failure      *)
(*                called by concurrent requests.                           *)
(*  BatchSpec     src/prototype/sql_agent_anthropic_v2.py (enqueue_query,  *)
(*                process_query_batch).                                    *)
(*  ConcurrentStreamSpec  requests served at the same time by the one      *)
(*                sql_agent of src/src/api/main.py.                        *)
(***************************************************************************)
EXTENDS Integers, Sequences, FiniteSets, TLC

VARIABLES
    \* ---- StreamSpec ----
    patched,            \* TRUE: src.api.main.sql_agent is patched (tests/test_api.py)
    mockReturn,         \* return_value of the patched get_final_answer
    pc,                 \* position of process_query_with_updates / process_query
    stream,             \* the JSON lines yielded by process_query_with_updates
    log,                \* what process_query did, in order: its yields and its calls
    updates_received,   \* main.py:22
    final_answer,       \* SQLAgent.final_answer (model.py:90), shared by all requests
    chunks,             \* chunks of agent.astream consumed by the current request
    served,             \* requests started so far
    \* ---- WorkflowSpec ----
    node,               \* next node of the compiled graph ("idle" between requests)
    messages,           \* State["messages"]
    steps,              \* supersteps taken by app.invoke for the current request
    outcome,            \* what process_user_query produced for the current request
    query_cache,        \* sqlite table query_cache: its rows
    lru,                \* functools.lru_cache of cache_query.wrapper: query -> result
    query_feedback,     \* sqlite table query_feedback: its rows
    storeRuns,          \* db.run_no_throw executions per query text
    servedFrom,         \* where the last db_query_tool call got its result
    \* ---- CacheTableSpec ----
    lastPut,            \* the last INSERT OR REPLACE: its hash, its result, and
                        \* the result the table held for that hash before it
    \* ---- RateSpec / ConcurrentRateSpec (sql_agent_anthropic_v2.py) ----
    now,                \* time.time(), in seconds
    last_call_time,     \* the global of line 144
    client_cache,       \* the dict query_cache of line 103: input -> result
    callPc,             \* per caller: position in rate_limited_agent_invoke
    callInput,          \* per caller: input_text of its call
    wakeAt,             \* per caller: when its time.sleep ends at the earliest
    grantedAt,          \* per caller: when it got past lines 149-151
    invocations,        \* agent.invoke calls so far: input, when granted, when
                        \* started
    answered,           \* per input: what the first agent.invoke that returned
                        \* for it returned
    callCount,          \* calls of rate_limited_agent_invoke so far
    ret,                \* per caller: what its last call returned
    \* ---- ContextSpec (SQLAgent's conversation context) ----
    conversation_history,   \* model.py:40
    last_query_result,      \* model.py:41
    ctxCall,            \* the last context operation: what was called, with
                        \* what, on how many turns held, and what it returned
                        \* or raised
    \* ---- SessionSpec (sessions sharing main.py's sql_agent) ----
    sessionCtx,         \* per session: the context its own operations alone
                        \* would have made
    lastRead,           \* the last "get": which session read, what it got
    \* ---- ConcurrentLedgerSpec ----
    pending,            \* per caller: the record_query_* call it is inside,
                        \* statement executed, commit not yet done
    returned,           \* per query text: record_query_* calls that returned
    \* ---- BatchSpec (sql_agent_anthropic_v2.py, query batching) ----
    query_queue,        \* the deque of line 111: (query, enqueue time) pairs
    batch_cache,        \* the dict query_cache of line 103 for the combined
                        \* texts process_query_batch asks for: its items
    lastBatch,          \* the last process_query_batch call: how many
                        \* entries it popped, its batch, whether agent.invoke
                        \* was called, and what it returned
    enqueued,           \* enqueue_query calls so far
    ticks,              \* times the clock was advanced
    \* ---- ConcurrentStreamSpec (requests in flight on one sql_agent) ----
    reqPc,              \* per request: position of its process_query_with_updates
    reqOutput,          \* per request: the last chunk["output"] of its own
                        \* agent run
    reqFinal            \* per request: the Final Answer event it was sent

streamVars == <<patched, mockReturn, pc, stream, log, updates_received,
                final_answer, chunks, served>>
wfVars == <<node, messages, steps, outcome, query_cache, lru,
            query_feedback, storeRuns, servedFrom>>
\* what an action of StreamSpec / of WorkflowSpec leaves alone
tableVars == <<lastPut>>
rateVars == <<now, last_call_time, client_cache, callPc, callInput, wakeAt,
              grantedAt, invocations, answered, callCount, ret>>
ctxVars == <<conversation_history, last_query_result, ctxCall>>
sessionVars == <<sessionCtx, lastRead>>
ledgerVars == <<pending, returned>>
batchVars == <<query_queue, batch_cache, lastBatch, enqueued, ticks>>
concVars == <<reqPc, reqOutput, reqFinal>>
nonStreamVars == <<wfVars, tableVars, rateVars, ctxVars, sessionVars, ledgerVars, batchVars, concVars>>
nonWfVars == <<streamVars, tableVars, rateVars, ctxVars, sessionVars, ledgerVars, batchVars, concVars>>
nonRateVars == <<streamVars, wfVars, tableVars, ctxVars, sessionVars, ledgerVars, batchVars, concVars>>
nonCtxVars == <<streamVars, wfVars, tableVars, rateVars, sessionVars, ledgerVars, batchVars, concVars>>
vars == <<streamVars, wfVars, tableVars, rateVars, ctxVars, sessionVars,
          ledgerVars, batchVars, concVars>>

----------------------------------------------------------------------------
(* Bounds                                                                  *)

MaxRequests == 2        \* requests served one after the other (StreamSpec)
MaxChunks == 3          \* chunks the backend stream delivers per request
MaxMockEvents == 3      \* events a patched process_query yields
MaxActions == 1         \* entries of chunk["actions"] / chunk["intermediate_steps"]
MaxCount == 3           \* records taken per counter of query_feedback (LedgerSpec)
NumCallers == 2         \* threads calling rate_limited_agent_invoke
MaxCalls == 3           \* calls of rate_limited_agent_invoke
MaxTime == 4            \* the clock stops here
StartTime == 1          \* time.time() when the module is loaded
MaxEnqueued == 6        \* calls of enqueue_query (BatchSpec)
MaxTicks == 2           \* times the clock of BatchSpec is advanced

----------------------------------------------------------------------------
(* Values                                                                  *)

\* A Python value that may sit in final_answer / be returned by
\* get_final_answer: None, a str, or a list of content blocks {"text": ..}.
\* v holds the str (one element) or the texts of the blocks.
NoneVal == [kind |-> "none", v |-> <<>>]
StrVal(s) == [kind |-> "str", v |-> <<s>>]
ListVal(texts) == [kind |-> "list", v |-> texts]

\* an answer text of the backend that quotes the query it generated and
\* ran through sql_db_query
AnswerQuotingQuery == "I ran SELECT person_name FROM people and found 3 people."
TextsWithQuery == {AnswerQuotingQuery}

\* chunk["output"] values the backend may deliver
Outputs == {StrVal("answer A"), StrVal(AnswerQuotingQuery),
            ListVal(<<"block text">>), ListVal(<<>>)}

\* AsyncMock(return_value=...) of tests/test_api.py
MockReturns == {StrVal("This is the final answer"), StrVal("Error occurred")}

\* str(e) of the exceptions the collaborators raise
Exceptions == {"index unavailable", "backend unavailable"}

\* action.tool names
Tools == {"sql_db_query", "search_country"}
\* chunk["actions"]: a list of actions, given by their tools
ActionLists == UNION {[1..n -> Tools] : n \in 0..MaxActions}
\* chunk["intermediate_steps"]: a list of steps, given by their str()
StepLists == UNION {[1..n -> {"(action, observation)"}] : n \in 0..MaxActions}

Event(step, message) == [step |-> step, message |-> message]

InitializingEv == Event("Initializing", <<"Starting to process your query">>)
ProcessingEv == Event("Processing", <<"Analyzing the query and generating SQL">>)
ExecutingEv(tool) == Event("Executing", <<"Running action: ", tool>>)
IntermediateEv(s) == Event("Intermediate Step", <<s>>)
FinalizingEv == Event("Finalizing", <<"Preparing the final answer">>)
ErrorEv(e) == Event("Error", <<"An error occurred: ", e>>)
NoUpdatesEv == Event("Error", <<"No updates received from the SQL agent">>)
FinalAnswerEv(result) == Event("Final Answer", result.v)

\* entries of log
Yielded(ev) == [kind |-> "yield", name |-> ev.step, message |-> ev.message]
Called(who) == [kind |-> "call", name |-> who, message |-> <<>>]

\* the events the patched process_query of the tests may yield
MockEvents == {InitializingEv,
               Event("Processing", <<"Analyzing the query results">>),
               FinalizingEv,
               ErrorEv("mock failure")}

\* SQLAgent.get_final_answer
get_final_answer(fa) ==
    IF fa.kind = "none" THEN StrVal("No query has been processed yet.")
    ELSE IF fa.kind = "list"
         THEN (IF fa.v # <<>> THEN StrVal(fa.v[1]) ELSE StrVal("No result"))
         ELSE fa

\* main.py:30-31
first_text(result) ==
    IF result.kind = "list"
    THEN (IF result.v # <<>> THEN StrVal(result.v[1]) ELSE StrVal("No result"))
    ELSE result

\* Forward without main.py:24 (the flag is never set)
Forward_flagNotSet(evs) ==
    /\ updates_received' = updates_received
    /\ stream' = stream \o evs

\* main.py:23-26: process_query_with_updates forwards each (step, message)
\* the agent yields as a line of the stream; evs are the events the agent
\* yields before it next awaits a collaborator
Forward(evs) ==
    /\ updates_received' = (updates_received \/ evs # <<>>)
    /\ stream' = stream \o evs

\* the entries of log for the yields of evs
YieldedAll(evs) == [i \in 1..Len(evs) |-> Yielded(evs[i])]

----------------------------------------------------------------------------
(* Values of the correction workflow (sql_agent_langgraph.py)              *)

min_delay == 1
MAX_BATCH_SIZE == 5
BATCH_TIMEOUT == 60
HistoryLimit == 10
RecursionLimit == 100

\* Texts are sequences of tokens; " " is whitespace.
SelectQuery == <<"SELECT", " ", "1">>
PaddedQuery == <<" ", "SELECT", " ", "1">>
DeleteQuery == <<"DELETE", " ", "FROM", " ", "people">>
QueryTexts == {SelectQuery, PaddedQuery, DeleteQuery}

\* hashlib.md5(query.encode()).hexdigest(): a function of the exact text,
\* taken to be collision-free on the texts of the model
md5(query) == <<"md5">> \o query
Hashes == {md5(q) : q \in QueryTexts}

\* what db.run_no_throw(query) may return: rows, the empty string, or the
\* text "Error: ..." it makes of an exception instead of raising it
RowsResult == <<"[(1,)]">>
EmptyResult == <<>>
ExceptionResult == <<"Error:", " ", "(psycopg2.errors.SyntaxError)">>
StoreResults == {RowsResult, EmptyResult, ExceptionResult}

\* sql_agent_langgraph.py:117
QueryFailedText == <<"Error:", " ", "Query failed. Please rewrite your query and try again.">>

NoRow == <<"<no row>">>     \* fetchone() is None / no lru entry
NoFeedback == [present |-> FALSE, success_count |-> 0, failure_count |-> 0]

\* SELECT result FROM query_cache WHERE query_hash = ? ... fetchone()
fetchone(table, query_hash) ==
    IF \E row \in table : row.query_hash = query_hash
    THEN (CHOOSE row \in table : row.query_hash = query_hash).result
    ELSE NoRow

\* INSERT INTO query_cache on a table without its PRIMARY KEY: a row more
insert_or_replace_appends(table, query_hash, query, result) ==
    table \cup {[query_hash |-> query_hash, query |-> query, result |-> result]}

\* INSERT OR REPLACE INTO query_cache (query_hash, query, result) on
\* query_hash TEXT PRIMARY KEY: the row of that hash, if any, is deleted
insert_or_replace(table, query_hash, query, result) ==
    {row \in table : row.query_hash # query_hash}
    \cup {[query_hash |-> query_hash, query |-> query, result |-> result]}

\* the counters of query_feedback for a hash (NoFeedback: no row)
feedback_row(fb, query_hash) ==
    IF \E row \in fb : row.query_hash = query_hash
    THEN LET row == CHOOSE row \in fb : row.query_hash = query_hash IN
         [present |-> TRUE, success_count |-> row.success_count,
          failure_count |-> row.failure_count]
    ELSE NoFeedback

\* messages of State["messages"]
HumanMessage(content) == [type |-> "human", content |-> content, tool_calls |-> <<>>]
AIMessage(content, tool_calls) == [type |-> "ai", content |-> content, tool_calls |-> tool_calls]
ToolMessage(content) == [type |-> "tool", content |-> content, tool_calls |-> <<>>]
ToolCall(name, query) == [name |-> name, query |-> query]

UserQuestion == <<"Find me events that will occur in the next 3 months.">>
SubmitCall == ToolCall("SubmitFinalAnswer", <<>>)
WrongCall == ToolCall("sql_db_query", SelectQuery)

\* what query_gen.invoke may answer: a candidate query as plain content, a
\* content that starts with "Error:", or tool calls
GenReplies ==
    {AIMessage(q, <<>>) : q \in QueryTexts}
    \cup {AIMessage(<<"Error:", " ", "I cannot answer">>, <<>>),
          AIMessage(<<>>, <<SubmitCall>>),
          AIMessage(<<>>, <<WrongCall>>),
          AIMessage(<<>>, <<SubmitCall, WrongCall>>)}

startswith(content, prefix) == Len(content) >= 1 /\ content[1] = prefix

\* sql_agent_langgraph.py:174
WrongToolText(name) == <<"Error:", " ", "The wrong tool was called: ", name, ". Please fix your mistakes.">>

\* query_gen_node lines 168-177: one ToolMessage per call of a wrong tool
RECURSIVE WrongToolMessages(_)
WrongToolMessages(calls) ==
    IF calls = <<>> THEN <<>>
    ELSE (IF Head(calls).name # "SubmitFinalAnswer"
          THEN <<ToolMessage(WrongToolText(Head(calls).name))>>
          ELSE <<>>) \o WrongToolMessages(Tail(calls))

\* agent_should_continue looking at messages[0], the reply of the backend,
\* in place of messages[-1]
agent_should_continue_firstMessage(msgs) ==
    LET last_message == msgs[1] IN
    IF last_message.tool_calls # <<>> THEN "END"
    ELSE IF startswith(last_message.content, "Error:") THEN "query_gen"
    ELSE "correct_query"

\* agent_should_continue sending a candidate straight to execute_query
agent_should_continue_skipsCheck(msgs) ==
    LET last_message == msgs[Len(msgs)] IN
    IF last_message.tool_calls # <<>> THEN "END"
    ELSE IF startswith(last_message.content, "Error:") THEN "query_gen"
    ELSE "execute_query"

\* agent_should_continue
agent_should_continue(msgs) ==
    LET last_message == msgs[Len(msgs)] IN
    IF last_message.tool_calls # <<>> THEN "END"
    ELSE IF startswith(last_message.content, "Error:") THEN "query_gen"
    ELSE "correct_query"

----------------------------------------------------------------------------
(* StreamSpec: one request at a time through process_query_with_updates    *)

WfInit ==
    /\ node = "idle"
    /\ messages = <<>>
    /\ steps = 0
    /\ outcome = "none"
    /\ query_cache = {}
    /\ lru = [q \in QueryTexts |-> NoRow]
    /\ query_feedback = {}
    /\ storeRuns = [q \in QueryTexts |-> 0]
    /\ servedFrom = "none"

\* no statement was issued on query_cache yet
NoPut == [query_hash |-> <<>>, result |-> NoRow, before |-> NoRow]
TableInit == lastPut = NoPut

\* sql_agent_anthropic_v2.py lines 103, 144: nothing cached, no call made
Callers == 1..NumCallers
InputTexts == {"List the email address for the people working in Singapore for more than a year.",
               "Find me events"}
\* what agent.invoke may return for an input
Results == {"result A", "result B"}
NoResult == "no entry"
RateInit ==
    /\ now = StartTime
    /\ last_call_time = 0
    /\ client_cache = [i \in InputTexts |-> NoResult]
    /\ callPc = [c \in Callers |-> "idle"]
    /\ callInput = [c \in Callers |-> ""]
    /\ wakeAt = [c \in Callers |-> 0]
    /\ grantedAt = [c \in Callers |-> 0]
    /\ invocations = <<>>
    /\ answered = [i \in InputTexts |-> NoResult]
    /\ callCount = 0
    /\ ret = [c \in Callers |-> "unset"]

\* model.py:40-41: no turn held, no result; no context operation called
Turn(question, answer) == [human |-> question, ai |-> answer]
NoTurn == Turn("", "")
\* what json.loads makes of the text after "update:": kind "not json" is a
\* text it raises JSONDecodeError on, "array" and "null" are JSON values
\* that are no object, "object" is a dict with or without the two keys
Json(kind, has_history, history, has_result, result) ==
    [kind |-> kind,
     has_history |-> has_history, conversation_history |-> history,
     has_result |-> has_result, last_query_result |-> result]
NoPayload == Json("none", FALSE, <<>>, FALSE, NoneVal)
NoCall == [verb |-> "none", payload |-> NoPayload, turn |-> NoTurn, held |-> 0,
           returned |-> <<>>]
CtxInit ==
    /\ conversation_history = <<>>
    /\ last_query_result = NoneVal
    /\ ctxCall = NoCall

\* sessions: conversations whose requests reach the one sql_agent of
\* main.py:19; none has called a context operation yet
Sessions == {"session A", "session B"}
Context(history, result) == [conversation_history |-> history, last_query_result |-> result]
NoRead == [session |-> "none", returned |-> <<>>]
SessionInit ==
    /\ sessionCtx = [s \in Sessions |-> Context(<<>>, NoneVal)]
    /\ lastRead = NoRead

\* record_query_success / record_query_failure: no call in progress
RecCallers == 1..NumCallers
NoOp == [kind |-> "none", query |-> <<>>]
NoneReturned == [success |-> 0, failure |-> 0]
LedgerInit ==
    /\ pending = [c \in RecCallers |-> NoOp]
    /\ returned = [q \in QueryTexts |-> NoneReturned]

\* sql_agent_anthropic_v2.py line 111: the queue is empty; no batch was
\* processed yet
Entry(query, enqueue_time) == [query |-> query, enqueue_time |-> enqueue_time]
NoBatch == [popped |-> 0, batch |-> <<>>, invoked |-> FALSE, ret |-> "unset"]
BatchInit ==
    /\ query_queue = <<>>
    /\ batch_cache = {}
    /\ lastBatch = NoBatch
    /\ enqueued = 0
    /\ ticks = 0

\* main.py:40-42: the requests the event loop serves at the same time; none
\* has started
Requests == {"request A", "request B"}
NoEvent == [step |-> "none", message |-> <<>>]
ConcInit ==
    /\ reqPc = [r \in Requests |-> "idle"]
    /\ reqOutput = [r \in Requests |-> NoneVal]
    /\ reqFinal = [r \in Requests |-> NoEvent]

\* what every specification starts from besides its own component
RestInit ==
    /\ TableInit /\ RateInit /\ CtxInit /\ SessionInit /\ LedgerInit
    /\ BatchInit /\ ConcInit

StreamInit ==
    /\ patched \in BOOLEAN
    /\ mockReturn \in MockReturns
    /\ pc = "idle"
    /\ stream = <<>>
    /\ log = <<>>
    /\ updates_received = FALSE
    /\ final_answer = NoneVal
    /\ chunks = 0
    /\ served = 0

\* main.py:40-42: query_endpoint hands a fresh generator to the response
Start ==
    /\ pc \in {"idle", "done", "cancelled"}
    /\ served < MaxRequests
    /\ served' = served + 1
    /\ chunks' = 0
    /\ pc' = IF patched THEN "mock" ELSE "started"
    /\ stream' = <<>>
    /\ log' = <<>>
    /\ updates_received' = FALSE
    /\ UNCHANGED <<patched, mockReturn, final_answer>>
    /\ UNCHANGED nonStreamVars

\* model.py:199: the first thing process_query does is yield Initializing
Initialize ==
    /\ pc = "started"
    /\ pc' = "retrieve"
    /\ log' = Append(log, Yielded(InitializingEv))
    /\ Forward(<<InitializingEv>>)
    /\ UNCHANGED <<patched, mockReturn, final_answer, chunks, served>>
    /\ UNCHANGED nonStreamVars

\* Retrieve without the yield of model.py:214
Retrieve_noProcessing ==
    /\ pc = "retrieve"
    /\ \/ /\ pc' = "astream"
          /\ log' = Append(log, Called("retriever"))
          /\ UNCHANGED <<stream, updates_received>>
       \/ \E e \in Exceptions :
          /\ pc' = "final"
          /\ log' = log \o <<Called("retriever"), Yielded(ErrorEv(e))>>
          /\ Forward(<<ErrorEv(e)>>)
    /\ UNCHANGED <<patched, mockReturn, final_answer, chunks, served>>
    /\ UNCHANGED nonStreamVars

\* model.py:202-214: the example retriever is called; it raises (model.py:232)
\* or the generator goes on to yield Processing.
Retrieve ==
    /\ pc = "retrieve"
    /\ \/ /\ pc' = "astream"
          /\ log' = log \o <<Called("retriever"), Yielded(ProcessingEv)>>
          /\ Forward(<<ProcessingEv>>)
       \/ \E e \in Exceptions :
          /\ pc' = "final"
          /\ log' = log \o <<Called("retriever"), Yielded(ErrorEv(e))>>
          /\ Forward(<<ErrorEv(e)>>)
    /\ UNCHANGED <<patched, mockReturn, final_answer, chunks, served>>
    /\ UNCHANGED nonStreamVars

\* model.py:216: agent.astream is called and its first chunk awaited
InvokeBackend ==
    /\ pc = "astream"
    /\ pc' = "await_chunk"
    /\ log' = Append(log, Called("backend"))
    /\ UNCHANGED <<patched, mockReturn, stream, updates_received, final_answer,
                   chunks, served>>
    /\ UNCHANGED nonStreamVars

\* model.py:222-224: a chunk with "actions"
ChunkActions ==
    /\ pc = "await_chunk"
    /\ chunks < MaxChunks
    /\ \E actions \in ActionLists :
        LET evs == [i \in 1..Len(actions) |-> ExecutingEv(actions[i])] IN
        /\ log' = log \o YieldedAll(evs)
        /\ Forward(evs)
    /\ chunks' = chunks + 1
    /\ UNCHANGED <<patched, mockReturn, pc, final_answer, served>>
    /\ UNCHANGED nonStreamVars

\* model.py:225-227: a chunk with "intermediate_steps"
ChunkSteps ==
    /\ pc = "await_chunk"
    /\ chunks < MaxChunks
    /\ \E intermediate_steps \in StepLists :
        LET evs == [i \in 1..Len(intermediate_steps) |->
                       IntermediateEv(intermediate_steps[i])] IN
        /\ log' = log \o YieldedAll(evs)
        /\ Forward(evs)
    /\ chunks' = chunks + 1
    /\ UNCHANGED <<patched, mockReturn, pc, final_answer, served>>
    /\ UNCHANGED nonStreamVars

\* model.py:228-230: a chunk with "output"
ChunkOutput ==
    /\ pc = "await_chunk"
    /\ chunks < MaxChunks
    /\ \E out \in Outputs : final_answer' = out
    /\ log' = Append(log, Yielded(FinalizingEv))
    /\ Forward(<<FinalizingEv>>)
    /\ chunks' = chunks + 1
    /\ UNCHANGED <<patched, mockReturn, pc, served>>
    /\ UNCHANGED nonStreamVars

\* model.py:222-228: a chunk with none of the three keys
ChunkOther ==
    /\ pc = "await_chunk"
    /\ chunks < MaxChunks
    /\ chunks' = chunks + 1
    /\ UNCHANGED <<patched, mockReturn, pc, stream, log, updates_received,
                   final_answer, served>>
    /\ UNCHANGED nonStreamVars

\* model.py:216: the backend stream is exhausted, process_query returns
StreamEnd ==
    /\ pc = "await_chunk"
    /\ pc' = "final"
    /\ UNCHANGED <<patched, mockReturn, stream, log, updates_received,
                   final_answer, chunks, served>>
    /\ UNCHANGED nonStreamVars

\* model.py:232-233: the backend raises an Exception
BackendRaise ==
    /\ pc = "await_chunk"
    /\ \E e \in Exceptions :
        /\ log' = Append(log, Yielded(ErrorEv(e)))
        /\ Forward(<<ErrorEv(e)>>)
    /\ pc' = "final"
    /\ UNCHANGED <<patched, mockReturn, final_answer, chunks, served>>
    /\ UNCHANGED nonStreamVars

\* tests/test_api.py:28-31,48-51,73-76: the patched process_query yields an event
MockYield ==
    /\ pc = "mock"
    /\ Len(stream) < MaxMockEvents
    /\ \E ev \in MockEvents :
        /\ log' = Append(log, Yielded(ev))
        /\ Forward(<<ev>>)
    /\ UNCHANGED <<patched, mockReturn, pc, final_answer, chunks, served>>
    /\ UNCHANGED nonStreamVars

\* the patched process_query returns
MockEnd ==
    /\ pc = "mock"
    /\ pc' = "final"
    /\ UNCHANGED <<patched, mockReturn, stream, log, updates_received,
                   final_answer, chunks, served>>
    /\ UNCHANGED nonStreamVars

\* EmitFinal without the test of main.py:36
EmitFinal_noTail ==
    /\ pc = "final"
    /\ LET result == first_text(IF patched THEN mockReturn
                                ELSE get_final_answer(final_answer))
       IN stream' = Append(stream, FinalAnswerEv(result))
    /\ pc' = "done"
    /\ UNCHANGED <<patched, mockReturn, log, updates_received, final_answer,
                   chunks, served>>
    /\ UNCHANGED nonStreamVars

\* main.py:29-33
EmitFinal ==
    /\ pc = "final"
    /\ LET result == first_text(IF patched THEN mockReturn
                                ELSE get_final_answer(final_answer))
       IN stream' = Append(stream, FinalAnswerEv(result))
    /\ pc' = IF updates_received THEN "done" ELSE "tail"
    /\ UNCHANGED <<patched, mockReturn, log, updates_received, final_answer,
                   chunks, served>>
    /\ UNCHANGED nonStreamVars

\* main.py:36-38
EmitNoUpdates ==
    /\ pc = "tail"
    /\ stream' = Append(stream, NoUpdatesEv)
    /\ pc' = "done"
    /\ UNCHANGED <<patched, mockReturn, log, updates_received, final_answer,
                   chunks, served>>
    /\ UNCHANGED nonStreamVars

\* The request's task is cancelled (client gone, caller's timeout) while it
\* is suspended: CancelledError / GeneratorExit are not Exceptions, so
\* model.py:232 does not catch them and main.py has no handler: the
\* generators unwind and nothing more is yielded.
Cancel ==
    /\ pc \in {"retrieve", "astream", "await_chunk", "mock", "final", "tail"}
    /\ pc' = "cancelled"
    /\ UNCHANGED <<patched, mockReturn, stream, log, updates_received,
                   final_answer, chunks, served>>
    /\ UNCHANGED nonStreamVars

StreamNext ==
    \/ Start
    \/ Initialize
    \/ Retrieve
    \/ InvokeBackend
    \/ ChunkActions
    \/ ChunkSteps
    \/ ChunkOutput
    \/ ChunkOther
    \/ StreamEnd
    \/ BackendRaise
    \/ MockYield
    \/ MockEnd
    \/ EmitFinal
    \/ EmitNoUpdates
    \/ Cancel

\* the API process after construction; the workflow prototype is not running
StreamSpecInit == StreamInit /\ WfInit /\ RestInit

StreamSpec == StreamSpecInit /\ [][StreamNext]_vars

----------------------------------------------------------------------------
(* WorkflowSpec: process_user_query over the compiled graph                *)

GraphNodes == {"first_tool_call", "list_tables_tool", "get_schema_tool",
               "query_gen", "correct_query", "execute_query"}

\* app.invoke(..., {"recursion_limit": 100}) without the limit
WithinLimit_unlimited == TRUE

\* app.invoke(..., {"recursion_limit": 100}): a node runs only while fewer
\* than recursion_limit supersteps were taken
WithinLimit == steps < RecursionLimit

\* record_query_success with INSERT OR REPLACE ... VALUES (?, ?, 1, 0) in
\* place of the ON CONFLICT clause
record_query_success_overwrites(fb, query) ==
    LET query_hash == md5(query) IN
    {row \in fb : row.query_hash # query_hash}
    \cup {[query_hash |-> query_hash, query |-> query,
           success_count |-> 1, failure_count |-> 0]}

\* record_query_success: INSERT ... VALUES (?, ?, 1, 0) ON CONFLICT(query_hash)
\* DO UPDATE SET success_count = success_count + 1
record_query_success(fb, query) ==
    LET query_hash == md5(query) IN
    IF \E row \in fb : row.query_hash = query_hash
    THEN {IF row.query_hash = query_hash
          THEN [row EXCEPT !.success_count = @ + 1] ELSE row : row \in fb}
    ELSE fb \cup {[query_hash |-> query_hash, query |-> query,
                   success_count |-> 1, failure_count |-> 0]}

\* record_query_failure with INSERT OR REPLACE ... VALUES (?, ?, 0, 1) in
\* place of the ON CONFLICT clause
record_query_failure_replaces(fb, query) ==
    LET query_hash == md5(query) IN
    {row \in fb : row.query_hash # query_hash}
    \cup {[query_hash |-> query_hash, query |-> query,
           success_count |-> 0, failure_count |-> 1]}

\* record_query_failure: INSERT ... VALUES (?, ?, 0, 1) ON CONFLICT(query_hash)
\* DO UPDATE SET failure_count = failure_count + 1
record_query_failure(fb, query) ==
    LET query_hash == md5(query) IN
    IF \E row \in fb : row.query_hash = query_hash
    THEN {IF row.query_hash = query_hash
          THEN [row EXCEPT !.failure_count = @ + 1] ELSE row : row \in fb}
    ELSE fb \cup {[query_hash |-> query_hash, query |-> query,
                   success_count |-> 0, failure_count |-> 1]}

\* process_user_query line 203: app.invoke starts at START -> first_tool_call
StartWf ==
    /\ node \in {"idle", "returned", "raised"}
    /\ node' = "first_tool_call"
    /\ messages' = <<HumanMessage(UserQuestion)>>
    /\ steps' = 0
    /\ outcome' = "none"
    /\ servedFrom' = "none"
    /\ UNCHANGED <<query_cache, lru, query_feedback, storeRuns>>
    /\ UNCHANGED nonWfVars

\* first_tool_call, edge to list_tables_tool
FirstToolCall ==
    /\ node = "first_tool_call"
    /\ WithinLimit
    /\ messages' = <<AIMessage(<<"To answer your question, I first need to understand the database structure. Let me list the available tables.">>,
                               <<ToolCall("sql_db_list_tables", <<>>)>>)>>
    /\ node' = "list_tables_tool"
    /\ steps' = steps + 1
    /\ UNCHANGED <<outcome, query_cache, lru, query_feedback, storeRuns,
                   servedFrom>>
    /\ UNCHANGED nonWfVars

\* list_tables_tool, edge to get_schema_tool
ListTables ==
    /\ node = "list_tables_tool"
    /\ WithinLimit
    /\ messages' = <<ToolMessage(<<"event, company, people">>)>>
    /\ node' = "get_schema_tool"
    /\ steps' = steps + 1
    /\ UNCHANGED <<outcome, query_cache, lru, query_feedback, storeRuns,
                   servedFrom>>
    /\ UNCHANGED nonWfVars

\* get_schema_tool, edge to query_gen
GetSchema ==
    /\ node = "get_schema_tool"
    /\ WithinLimit
    /\ messages' = <<ToolMessage(<<"CREATE TABLE ...">>)>>
    /\ node' = "query_gen"
    /\ steps' = steps + 1
    /\ UNCHANGED <<outcome, query_cache, lru, query_feedback, storeRuns,
                   servedFrom>>
    /\ UNCHANGED nonWfVars

\* query_gen_node and the conditional edge agent_should_continue
QueryGen ==
    /\ node = "query_gen"
    /\ WithinLimit
    /\ \E message \in GenReplies :
        /\ messages' = <<message>> \o WrongToolMessages(message.tool_calls)
        /\ node' = agent_should_continue(messages')
    /\ steps' = steps + 1
    /\ servedFrom' = "none"
    /\ UNCHANGED <<outcome, query_cache, lru, query_feedback, storeRuns>>
    /\ UNCHANGED nonWfVars

\* model_check_query (node correct_query): query_check is bound to
\* db_query_tool with tool_choice="required", so the reply is a call of it
\* with a query text of the backend's choosing; edge to execute_query
CorrectQuery ==
    /\ node = "correct_query"
    /\ WithinLimit
    /\ \E q \in QueryTexts :
        messages' = <<AIMessage(<<>>, <<ToolCall("db_query_tool", q)>>)>>
    /\ node' = "execute_query"
    /\ steps' = steps + 1
    /\ UNCHANGED <<outcome, query_cache, lru, query_feedback, storeRuns,
                   servedFrom>>
    /\ UNCHANGED nonWfVars

\* db_query_tool (the undecorated function): ran is what
\* db.run_no_throw(query) returned
db_query_tool(fb, query, ran) ==
    IF ran = EmptyResult
    THEN [result |-> QueryFailedText, feedback |-> record_query_failure(fb, query)]
    ELSE [result |-> ran, feedback |-> record_query_success(fb, query)]

\* cache_query.wrapper recording a success on every hit as well
wrapper_recordsOnHit(query, ran) ==
    LET query_hash == md5(query) IN
    IF lru[query] # NoRow
    THEN [result |-> lru[query], lru |-> lru, query_cache |-> query_cache,
          query_feedback |-> record_query_success(query_feedback, query),
          from |-> "lru"]
    ELSE IF fetchone(query_cache, query_hash) # NoRow
    THEN [result |-> fetchone(query_cache, query_hash),
          lru |-> [lru EXCEPT ![query] = fetchone(query_cache, query_hash)],
          query_cache |-> query_cache,
          query_feedback |-> record_query_success(query_feedback, query),
          from |-> "sqlite"]
    ELSE LET call == db_query_tool(query_feedback, query, ran) IN
         [result |-> call.result,
          lru |-> [lru EXCEPT ![query] = call.result],
          query_cache |-> insert_or_replace(query_cache, query_hash, query,
                                            call.result),
          query_feedback |-> call.feedback,
          from |-> "store"]

\* cache_query.wrapper without the SELECT of lines 55-59: the function runs
\* on every miss of the lru_cache
wrapper_skipsSelect(query, ran) ==
    LET query_hash == md5(query) IN
    IF lru[query] # NoRow
    THEN [result |-> lru[query], lru |-> lru, query_cache |-> query_cache,
          query_feedback |-> query_feedback, from |-> "lru"]
    ELSE LET call == db_query_tool(query_feedback, query, ran) IN
         [result |-> call.result,
          lru |-> [lru EXCEPT ![query] = call.result],
          query_cache |-> insert_or_replace(query_cache, query_hash, query,
                                            call.result),
          query_feedback |-> call.feedback,
          from |-> "store"]

\* cache_query.wrapper: the lru_cache in front (line 53), then the row of
\* query_cache (lines 55-59), then the function and the INSERT OR REPLACE
\* (lines 60-66). The values of the tables and of the lru_cache after the
\* call, its result, and where the result came from.
wrapper(query, ran) ==
    LET query_hash == md5(query) IN
    IF lru[query] # NoRow
    THEN [result |-> lru[query], lru |-> lru, query_cache |-> query_cache,
          query_feedback |-> query_feedback, from |-> "lru"]
    ELSE IF fetchone(query_cache, query_hash) # NoRow
    THEN [result |-> fetchone(query_cache, query_hash),
          lru |-> [lru EXCEPT ![query] = fetchone(query_cache, query_hash)],
          query_cache |-> query_cache, query_feedback |-> query_feedback,
          from |-> "sqlite"]
    ELSE LET call == db_query_tool(query_feedback, query, ran) IN
         [result |-> call.result,
          lru |-> [lru EXCEPT ![query] = call.result],
          query_cache |-> insert_or_replace(query_cache, query_hash, query,
                                            call.result),
          query_feedback |-> call.feedback,
          from |-> "store"]

\* node execute_query: the ToolNode runs db_query_tool (decorated by
\* cache_query) on the call of the last message; edge to query_gen
ExecuteQuery ==
    /\ node = "execute_query"
    /\ WithinLimit
    /\ \E ran \in StoreResults :
        LET query == messages[Len(messages)].tool_calls[1].query
            call == wrapper(query, ran)
        IN  /\ messages' = <<ToolMessage(call.result)>>
            /\ lru' = call.lru
            /\ query_cache' = call.query_cache
            /\ query_feedback' = call.query_feedback
            /\ servedFrom' = call.from
            /\ storeRuns' = IF call.from = "store"
                            THEN [storeRuns EXCEPT ![query] = @ + 1]
                            ELSE storeRuns
    /\ node' = "query_gen"
    /\ steps' = steps + 1
    /\ UNCHANGED outcome
    /\ UNCHANGED nonWfVars

\* app.invoke raises GraphRecursionError once recursion_limit supersteps
\* were taken and the graph has not reached END; process_user_query does
\* not catch it
RaiseLimit ==
    /\ node \in GraphNodes
    /\ ~WithinLimit
    /\ node' = "raised"
    /\ outcome' = "GraphRecursionError"
    /\ UNCHANGED <<messages, steps, query_cache, lru, query_feedback,
                   storeRuns, servedFrom>>
    /\ UNCHANGED nonWfVars

\* process_user_query lines 204-209
Finish ==
    /\ node = "END"
    /\ LET final_message == messages[Len(messages)] IN
       outcome' = IF /\ final_message.type = "ai"
                     /\ \E i \in 1..Len(final_message.tool_calls) :
                           final_message.tool_calls[i].name = "SubmitFinalAnswer"
                  THEN "final_answer"
                  ELSE "apology"
    /\ node' = "returned"
    /\ UNCHANGED <<messages, steps, query_cache, lru, query_feedback,
                   storeRuns, servedFrom>>
    /\ UNCHANGED nonWfVars

\* the process is started again: lru_cache is empty, the sqlite file stays
Restart ==
    /\ node \in {"returned", "raised"}
    /\ \E q \in QueryTexts : lru[q] # NoRow
    /\ lru' = [q \in QueryTexts |-> NoRow]
    /\ node' = "idle"
    /\ UNCHANGED <<messages, steps, outcome, query_cache, query_feedback,
                   storeRuns, servedFrom>>
    /\ UNCHANGED nonWfVars

WfNext ==
    \/ StartWf
    \/ FirstToolCall
    \/ ListTables
    \/ GetSchema
    \/ QueryGen
    \/ CorrectQuery
    \/ ExecuteQuery
    \/ RaiseLimit
    \/ Finish
    \/ Restart

\* the API of StreamSpec is not running
StreamIdle ==
    /\ patched = FALSE
    /\ mockReturn = StrVal("This is the final answer")
    /\ pc = "idle"
    /\ stream = <<>>
    /\ log = <<>>
    /\ updates_received = FALSE
    /\ final_answer = NoneVal
    /\ chunks = 0
    /\ served = 0

\* the prototype after its module-level setup; the API is not running
WorkflowSpecInit == StreamIdle /\ WfInit /\ RestInit

WorkflowSpec == WorkflowSpecInit /\ [][WfNext]_vars

----------------------------------------------------------------------------
(* ConcurrentStreamSpec: the requests of Requests served by the event loop *)
(* at the same time; a step runs one of them from one await to the next    *)

oneRequestVars == <<patched, mockReturn, pc, stream, log, updates_received,
                    chunks, served>>
nonConcVars == <<wfVars, tableVars, rateVars, ctxVars, sessionVars,
                 ledgerVars, batchVars>>

\* main.py:40-42, 21-23 and model.py:199-216: the request starts, yields
\* Initializing, retrieves examples, yields Processing and awaits the first
\* chunk of agent.astream; or the retrieval raises and Error is yielded
ReqStart ==
    \E r \in Requests :
        /\ reqPc[r] = "idle"
        /\ \E next \in {"await_chunk", "final"} :
            reqPc' = [reqPc EXCEPT ![r] = next]
        /\ UNCHANGED <<final_answer, reqOutput, reqFinal>>
        /\ UNCHANGED oneRequestVars
        /\ UNCHANGED nonConcVars

\* model.py:228-230: a chunk with "output" arrives for the request
ReqChunkOutput ==
    \E r \in Requests, out \in Outputs :
        /\ reqPc[r] = "await_chunk"
        /\ final_answer' = out
        /\ reqOutput' = [reqOutput EXCEPT ![r] = out]
        /\ UNCHANGED <<reqPc, reqFinal>>
        /\ UNCHANGED oneRequestVars
        /\ UNCHANGED nonConcVars

\* model.py:216, 232-233: the request's backend stream is exhausted, or it
\* raises and Error is yielded
ReqStreamEnd ==
    \E r \in Requests :
        /\ reqPc[r] = "await_chunk"
        /\ reqPc' = [reqPc EXCEPT ![r] = "final"]
        /\ UNCHANGED <<final_answer, reqOutput, reqFinal>>
        /\ UNCHANGED oneRequestVars
        /\ UNCHANGED nonConcVars

\* main.py:29-33: the request awaits get_final_answer and yields Final Answer
ReqEmitFinal ==
    \E r \in Requests :
        /\ reqPc[r] = "final"
        /\ LET result == first_text(get_final_answer(final_answer))
           IN reqFinal' = [reqFinal EXCEPT ![r] = FinalAnswerEv(result)]
        /\ reqPc' = [reqPc EXCEPT ![r] = "done"]
        /\ UNCHANGED <<final_answer, reqOutput>>
        /\ UNCHANGED oneRequestVars
        /\ UNCHANGED nonConcVars

ConcurrentStreamNext ==
    \/ ReqStart
    \/ ReqChunkOutput
    \/ ReqStreamEnd
    \/ ReqEmitFinal

ConcurrentStreamSpecInit == StreamIdle /\ WfInit /\ RestInit

ConcurrentStreamSpec ==
    ConcurrentStreamSpecInit /\ [][ConcurrentStreamNext]_vars

----------------------------------------------------------------------------
(* InterruptSpec: WorkflowSpec with execute_query interrupted inside       *)
(* db_query_tool's wrapper (KeyboardInterrupt, the process killed)         *)

\* node execute_query on a miss, interrupted after db.run_no_throw: either
\* before db_query_tool recorded anything (line 114), or after
\* record_query_success / record_query_failure committed (lines 76, 84) and
\* before the INSERT OR REPLACE of the wrapper (line 61) was committed.
\* Nothing catches the interrupt: app.invoke ends with it and so does the
\* process; the sqlite file stays as it was left.
ExecuteInterrupted ==
    /\ node = "execute_query"
    /\ WithinLimit
    /\ LET query == messages[Len(messages)].tool_calls[1].query IN
       /\ lru[query] = NoRow
       /\ fetchone(query_cache, md5(query)) = NoRow
       /\ storeRuns' = [storeRuns EXCEPT ![query] = @ + 1]
       /\ \E ran \in StoreResults, recorded \in BOOLEAN :
            query_feedback' =
                IF recorded THEN db_query_tool(query_feedback, query, ran).feedback
                ELSE query_feedback
    /\ node' = "interrupted"
    /\ outcome' = "KeyboardInterrupt"
    /\ UNCHANGED <<messages, steps, query_cache, lru, servedFrom>>
    /\ UNCHANGED nonWfVars

InterruptNext ==
    \/ StartWf
    \/ FirstToolCall
    \/ ListTables
    \/ GetSchema
    \/ QueryGen
    \/ CorrectQuery
    \/ ExecuteQuery
    \/ ExecuteInterrupted
    \/ RaiseLimit
    \/ Finish
    \/ Restart

InterruptSpecInit == StreamIdle /\ WfInit /\ RestInit

InterruptSpec == InterruptSpecInit /\ [][InterruptNext]_vars

----------------------------------------------------------------------------
(* CacheTableSpec: the INSERT OR REPLACE of cache_query issued on the table *)
(* query_cache in any state the PRIMARY KEY allows                          *)

\* what cache_query may write as a result: what db_query_tool returns
CachedResults == {RowsResult, ExceptionResult, QueryFailedText}

\* lines 61-65: cursor.execute("INSERT OR REPLACE INTO query_cache ..."),
\* conn.commit()
PutEntry ==
    /\ \E query \in QueryTexts, result \in CachedResults :
        LET query_hash == md5(query) IN
        /\ query_cache' = insert_or_replace(query_cache, query_hash, query, result)
        /\ lastPut' = [query_hash |-> query_hash, result |-> result,
                       before |-> fetchone(query_cache, query_hash)]
    /\ UNCHANGED <<node, messages, steps, outcome, lru, query_feedback,
                   storeRuns, servedFrom>>
    /\ UNCHANGED <<streamVars, rateVars, ctxVars, sessionVars, ledgerVars, batchVars, concVars>>

CacheTableNext ==
    \/ PutEntry

\* the tables as created by lines 30-49, empty
CacheTableSpecInit == StreamIdle /\ WfInit /\ RestInit

CacheTableSpec == CacheTableSpecInit /\ [][CacheTableNext]_vars

----------------------------------------------------------------------------
(* LedgerSpec: record_query_success / record_query_failure called in any   *)
(* order on the table query_feedback                                       *)

\* record_query_success(query)
RecordSuccess ==
    /\ \E query \in QueryTexts :
        /\ feedback_row(query_feedback, md5(query)).success_count < MaxCount
        /\ query_feedback' = record_query_success(query_feedback, query)
    /\ UNCHANGED <<node, messages, steps, outcome, query_cache, lru,
                   storeRuns, servedFrom>>
    /\ UNCHANGED nonWfVars

\* record_query_failure(query)
RecordFailure ==
    /\ \E query \in QueryTexts :
        /\ feedback_row(query_feedback, md5(query)).failure_count < MaxCount
        /\ query_feedback' = record_query_failure(query_feedback, query)
    /\ UNCHANGED <<node, messages, steps, outcome, query_cache, lru,
                   storeRuns, servedFrom>>
    /\ UNCHANGED nonWfVars

LedgerNext ==
    \/ RecordSuccess
    \/ RecordFailure

\* the tables as created by lines 30-49, empty
LedgerSpecInit == StreamIdle /\ WfInit /\ RestInit

LedgerSpec == LedgerSpecInit /\ [][LedgerNext]_vars

----------------------------------------------------------------------------
(* ConcurrentLedgerSpec: record_query_success / record_query_failure       *)
(* called by NumCallers concurrent requests on the one connection          *)

\* the query texts the concurrent requests record
LedgerQueries == {SelectQuery, PaddedQuery}

\* record_query_success up to its cursor.execute (lines 71-75): the upsert
\* is one statement, which sqlite executes as a whole
ExecuteSuccess ==
    \E c \in RecCallers, query \in LedgerQueries :
        /\ pending[c] = NoOp
        /\ feedback_row(query_feedback, md5(query)).success_count < MaxCount
        /\ query_feedback' = record_query_success(query_feedback, query)
        /\ pending' = [pending EXCEPT ![c] = [kind |-> "success", query |-> query]]
        /\ UNCHANGED returned
        /\ UNCHANGED <<node, messages, steps, outcome, query_cache, lru,
                       storeRuns, servedFrom>>
        /\ UNCHANGED <<streamVars, tableVars, rateVars, ctxVars, sessionVars, batchVars, concVars>>

\* record_query_failure up to its cursor.execute (lines 79-83)
ExecuteFailure ==
    \E c \in RecCallers, query \in LedgerQueries :
        /\ pending[c] = NoOp
        /\ feedback_row(query_feedback, md5(query)).failure_count < MaxCount
        /\ query_feedback' = record_query_failure(query_feedback, query)
        /\ pending' = [pending EXCEPT ![c] = [kind |-> "failure", query |-> query]]
        /\ UNCHANGED returned
        /\ UNCHANGED <<node, messages, steps, outcome, query_cache, lru,
                       storeRuns, servedFrom>>
        /\ UNCHANGED <<streamVars, tableVars, rateVars, ctxVars, sessionVars, batchVars, concVars>>

\* conn.commit() (lines 76, 84) and the return of the call
CommitRecord ==
    \E c \in RecCallers :
        /\ pending[c] # NoOp
        /\ returned' = [returned EXCEPT ![pending[c].query] =
                            IF pending[c].kind = "success"
                            THEN [@ EXCEPT !.success = @ + 1]
                            ELSE [@ EXCEPT !.failure = @ + 1]]
        /\ pending' = [pending EXCEPT ![c] = NoOp]
        /\ UNCHANGED wfVars
        /\ UNCHANGED <<streamVars, tableVars, rateVars, ctxVars, sessionVars, batchVars, concVars>>

ConcurrentLedgerNext ==
    \/ ExecuteSuccess
    \/ ExecuteFailure
    \/ CommitRecord

ConcurrentLedgerSpecInit == StreamIdle /\ WfInit /\ RestInit

ConcurrentLedgerSpec == ConcurrentLedgerSpecInit /\ [][ConcurrentLedgerNext]_vars

----------------------------------------------------------------------------
(* RateSpec: rate_limited_agent_invoke called again and again, one call at *)
(* a time. ConcurrentRateSpec: called from NumCallers threads.             *)

\* lines 149-151: current_time = time.time(); the call sleeps for
\* min_delay - (current_time - last_call_time) when less than min_delay
\* has passed since last_call_time
enter(c, input_text) ==
    LET current_time == now IN
    /\ callPc[c] = "idle"
    /\ callCount < MaxCalls
    /\ callCount' = callCount + 1
    /\ callInput' = [callInput EXCEPT ![c] = input_text]
    /\ ret' = [ret EXCEPT ![c] = "unset"]
    /\ IF current_time - last_call_time < min_delay
       THEN /\ callPc' = [callPc EXCEPT ![c] = "sleeping"]
            /\ wakeAt' = [wakeAt EXCEPT ![c] =
                              now + (min_delay - (current_time - last_call_time))]
            /\ UNCHANGED grantedAt
       ELSE /\ callPc' = [callPc EXCEPT ![c] = "granted"]
            /\ grantedAt' = [grantedAt EXCEPT ![c] = now]
            /\ UNCHANGED wakeAt
    /\ UNCHANGED <<now, last_call_time, client_cache, invocations, answered>>
    /\ UNCHANGED nonRateVars

\* a call of rate_limited_agent_invoke while no other call is running
Call ==
    \E c \in Callers, input_text \in InputTexts :
        /\ \A c2 \in Callers : callPc[c2] = "idle"
        /\ enter(c, input_text)

\* a call of rate_limited_agent_invoke from a thread, whatever the other
\* threads are doing: the function takes no lock
ConcurrentCall ==
    \E c \in Callers, input_text \in InputTexts :
        /\ callPc[c] = "idle"
        /\ enter(c, input_text)

\* line 151: time.sleep returns once the time asked for has passed
Wake ==
    \E c \in Callers :
        /\ callPc[c] = "sleeping"
        /\ now >= wakeAt[c]
        /\ callPc' = [callPc EXCEPT ![c] = "granted"]
        /\ grantedAt' = [grantedAt EXCEPT ![c] = now]
        /\ UNCHANGED <<now, last_call_time, client_cache, callInput, wakeAt,
                       invocations, answered, callCount, ret>>
        /\ UNCHANGED nonRateVars

\* lines 155-156: the input is in query_cache; last_call_time is not touched
CacheHit ==
    \E c \in Callers :
        /\ callPc[c] = "granted"
        /\ client_cache[callInput[c]] # NoResult
        /\ callPc' = [callPc EXCEPT ![c] = "idle"]
        /\ ret' = [ret EXCEPT ![c] = client_cache[callInput[c]]]
        /\ UNCHANGED <<now, last_call_time, client_cache, callInput, wakeAt,
                       grantedAt, invocations, answered, callCount>>
        /\ UNCHANGED nonRateVars

\* lines 159-162: agent.invoke is entered
InvokeStart ==
    \E c \in Callers :
        /\ callPc[c] = "granted"
        /\ client_cache[callInput[c]] = NoResult
        /\ callPc' = [callPc EXCEPT ![c] = "invoking"]
        /\ invocations' = Append(invocations,
                                 [input |-> callInput[c],
                                  granted |-> grantedAt[c], started |-> now])
        /\ UNCHANGED <<now, last_call_time, client_cache, callInput, wakeAt,
                       grantedAt, answered, callCount, ret>>
        /\ UNCHANGED nonRateVars

\* InvokeReturn without line 166: the result is not put in query_cache
InvokeReturn_notCached ==
    \E c \in Callers, result \in Results :
        /\ callPc[c] = "invoking"
        /\ last_call_time' = now
        /\ answered' = IF answered[callInput[c]] = NoResult
                       THEN [answered EXCEPT ![callInput[c]] = result]
                       ELSE answered
        /\ callPc' = [callPc EXCEPT ![c] = "idle"]
        /\ ret' = [ret EXCEPT ![c] = result]
        /\ UNCHANGED <<now, client_cache, callInput, wakeAt, grantedAt,
                       invocations, callCount>>
        /\ UNCHANGED nonRateVars

\* lines 162-168: agent.invoke returned; last_call_time = time.time(), the
\* result is cached and returned
InvokeReturn ==
    \E c \in Callers, result \in Results :
        /\ callPc[c] = "invoking"
        /\ last_call_time' = now
        /\ client_cache' = [client_cache EXCEPT ![callInput[c]] = result]
        /\ answered' = IF answered[callInput[c]] = NoResult
                       THEN [answered EXCEPT ![callInput[c]] = result]
                       ELSE answered
        /\ callPc' = [callPc EXCEPT ![c] = "idle"]
        /\ ret' = [ret EXCEPT ![c] = result]
        /\ UNCHANGED <<now, callInput, wakeAt, grantedAt, invocations, callCount>>
        /\ UNCHANGED nonRateVars

\* InvokeRaise with the failure stored in query_cache as if it were a result
InvokeRaise_cachesFailure ==
    \E c \in Callers :
        /\ callPc[c] = "invoking"
        /\ callPc' = [callPc EXCEPT ![c] = "idle"]
        /\ ret' = [ret EXCEPT ![c] = "None"]
        /\ client_cache' = [client_cache EXCEPT ![callInput[c]] = "None"]
        /\ UNCHANGED <<now, last_call_time, callInput, wakeAt,
                       grantedAt, invocations, answered, callCount>>
        /\ UNCHANGED nonRateVars

\* lines 169-171: agent.invoke raised; the error is printed and None is
\* returned, last_call_time and query_cache stay as they were
InvokeRaise ==
    \E c \in Callers :
        /\ callPc[c] = "invoking"
        /\ callPc' = [callPc EXCEPT ![c] = "idle"]
        /\ ret' = [ret EXCEPT ![c] = "None"]
        /\ UNCHANGED <<now, last_call_time, client_cache, callInput, wakeAt,
                       grantedAt, invocations, answered, callCount>>
        /\ UNCHANGED nonRateVars

\* a second passes
Tick ==
    /\ now < MaxTime
    /\ now' = now + 1
    /\ UNCHANGED <<last_call_time, client_cache, callPc, callInput, wakeAt,
                   grantedAt, invocations, answered, callCount, ret>>
    /\ UNCHANGED nonRateVars

RateNext ==
    \/ Call
    \/ Wake
    \/ CacheHit
    \/ InvokeStart
    \/ InvokeReturn
    \/ InvokeRaise
    \/ Tick

ConcurrentRateNext ==
    \/ ConcurrentCall
    \/ Wake
    \/ CacheHit
    \/ InvokeStart
    \/ InvokeReturn
    \/ InvokeRaise
    \/ Tick

RateSpecInit == StreamIdle /\ WfInit /\ RestInit

RateSpec == RateSpecInit /\ [][RateNext]_vars

ConcurrentRateSpecInit == StreamIdle /\ WfInit /\ RestInit

ConcurrentRateSpec == ConcurrentRateSpecInit /\ [][ConcurrentRateNext]_vars

----------------------------------------------------------------------------
(* BatchSpec: enqueue_query and process_query_batch called in any order,   *)
(* one call at a time, while the clock advances                            *)

\* " ".join(batch): the texts with a blank between neighbours
RECURSIVE join(_)
join(texts) ==
    IF Len(texts) <= 1 THEN texts
    ELSE <<Head(texts), " ">> \o join(Tail(texts))

\* line 123 with >= in place of >
expired_atTimeout(entry, current_time) ==
    current_time - entry.enqueue_time >= BATCH_TIMEOUT

\* line 123: current_time - enqueue_time > BATCH_TIMEOUT
expired(entry, current_time) ==
    current_time - entry.enqueue_time > BATCH_TIMEOUT

\* the while loop of lines 121-125: entries are popped from the left while
\* the queue is not empty and the batch is not full; an expired one is
\* skipped (continue), the others are appended to the batch
RECURSIVE take_batch(_, _, _, _)
take_batch(queue, batch, dequeued, current_time) ==
    IF queue # <<>> /\ Len(batch) < MAX_BATCH_SIZE
    THEN IF expired(Head(queue), current_time)
         THEN take_batch(Tail(queue), batch,
                         Append(dequeued, Head(queue)), current_time)
         ELSE take_batch(Tail(queue), Append(batch, Head(queue)),
                         Append(dequeued, Head(queue)), current_time)
    ELSE [queue |-> queue, batch |-> batch, dequeued |-> dequeued]

\* the texts enqueue_query is called with
BatchTexts == {"Find me events"}

\* what agent.invoke returns for a combined text
BatchResults == {"result A"}

\* the result query_cache holds for an input (NoResult: not in the dict)
cached(cache, input_text) ==
    IF \E item \in cache : item.input = input_text
    THEN (CHOOSE item \in cache : item.input = input_text).result
    ELSE NoResult

\* rate_limited_agent_invoke(input_text) called at current_time, as one
\* step: what it may return, with the clock, last_call_time and query_cache
\* it leaves. It sleeps to min_delay after last_call_time (lines 149-151),
\* answers from query_cache (155-156), or calls agent.invoke, which returns
\* (162-168) or raises (169-171).
invoke_outcomes(input_text, current_time) ==
    LET woke == IF current_time - last_call_time < min_delay
                THEN current_time + (min_delay - (current_time - last_call_time))
                ELSE current_time
    IN  IF cached(batch_cache, input_text) # NoResult
        THEN {[ret |-> cached(batch_cache, input_text), invoked |-> FALSE,
               now |-> woke, last_call_time |-> last_call_time,
               cache |-> batch_cache]}
        ELSE {[ret |-> result, invoked |-> TRUE,
               now |-> woke, last_call_time |-> woke,
               cache |-> batch_cache \cup {[input |-> input_text,
                                            result |-> result]}]
                 : result \in BatchResults}
             \cup {[ret |-> "None", invoked |-> TRUE,
                    now |-> woke, last_call_time |-> last_call_time,
                    cache |-> batch_cache]}

rateCallVars == <<client_cache, callPc, callInput, wakeAt, grantedAt,
                  invocations, answered, callCount, ret>>
nonBatchVars == <<streamVars, wfVars, tableVars, ctxVars, sessionVars,
                  ledgerVars, concVars>>

\* enqueue_query (lines 115-116)
EnqueueQuery ==
    /\ enqueued < MaxEnqueued
    /\ \E query \in BatchTexts :
        query_queue' = Append(query_queue, Entry(query, now))
    /\ enqueued' = enqueued + 1
    /\ UNCHANGED <<batch_cache, lastBatch, ticks>>
    /\ UNCHANGED <<now, last_call_time, rateCallVars>>
    /\ UNCHANGED nonBatchVars

\* process_query_batch without the test of line 127: the combined text is
\* handed to rate_limited_agent_invoke whatever the batch holds
ProcessBatch_invokesEmpty ==
    LET current_time == now
        taken == take_batch(query_queue, <<>>, <<>>, current_time)
        combined_query == join([i \in 1..Len(taken.batch) |-> taken.batch[i].query])
    IN  /\ query_queue' = taken.queue
        /\ \E out \in invoke_outcomes(combined_query, current_time) :
              /\ now' = out.now
              /\ last_call_time' = out.last_call_time
              /\ batch_cache' = out.cache
              /\ lastBatch' = [popped |-> Len(taken.dequeued),
                               batch |-> taken.batch,
                               invoked |-> out.invoked, ret |-> out.ret]
        /\ UNCHANGED <<enqueued, ticks, rateCallVars>>
        /\ UNCHANGED nonBatchVars

\* process_query_batch (lines 118-130)
ProcessBatch ==
    LET current_time == now
        taken == take_batch(query_queue, <<>>, <<>>, current_time)
        combined_query == join([i \in 1..Len(taken.batch) |-> taken.batch[i].query])
    IN  /\ query_queue' = taken.queue
        /\ IF taken.batch # <<>>
           THEN \E out \in invoke_outcomes(combined_query, current_time) :
                  /\ now' = out.now
                  /\ last_call_time' = out.last_call_time
                  /\ batch_cache' = out.cache
                  /\ lastBatch' = [popped |-> Len(taken.dequeued),
                                   batch |-> taken.batch,
                                   invoked |-> out.invoked, ret |-> out.ret]
           ELSE /\ lastBatch' = [popped |-> Len(taken.dequeued),
                                 batch |-> <<>>, invoked |-> FALSE,
                                 ret |-> "None"]
                /\ UNCHANGED <<now, last_call_time, batch_cache>>
        /\ UNCHANGED <<enqueued, ticks, rateCallVars>>
        /\ UNCHANGED nonBatchVars

\* time passes: a second, or BATCH_TIMEOUT seconds
BatchTick ==
    /\ ticks < MaxTicks
    /\ ticks' = ticks + 1
    /\ \E d \in {1, BATCH_TIMEOUT} : now' = now + d
    /\ UNCHANGED <<query_queue, batch_cache, lastBatch, enqueued>>
    /\ UNCHANGED <<last_call_time, rateCallVars>>
    /\ UNCHANGED nonBatchVars

BatchNext ==
    \/ EnqueueQuery
    \/ ProcessBatch
    \/ BatchTick

BatchSpecInit == StreamIdle /\ WfInit /\ RestInit

BatchSpec == BatchSpecInit /\ [][BatchNext]_vars

----------------------------------------------------------------------------
(* ContextSpec: the context operations of SQLAgent called in any order     *)

Questions == {"Find me events", "Find me people"}
Answer == "There are 3 events."

\* a history of one turn more than _update_conversation_history keeps
OverlongHistory == [i \in 1..(HistoryLimit + 1) |-> Turn("Find me events", Answer)]

\* texts an "update: ..." action may carry, as json.loads reads them
PayloadHistories == {<<>>, <<Turn("Find me people", Answer)>>, OverlongHistory}
PayloadResults == {NoneVal, StrVal("[(1,)]")}
Payloads ==
    {Json("not json", FALSE, <<>>, FALSE, NoneVal),      \* {conversation_history: [
     Json("array", FALSE, <<>>, FALSE, NoneVal),         \* [1, 2]
     Json("null", FALSE, <<>>, FALSE, NoneVal),          \* null
     Json("object", FALSE, <<>>, FALSE, NoneVal)}        \* {}
    \cup {Json("object", TRUE, h, FALSE, NoneVal) : h \in PayloadHistories}
    \cup {Json("object", FALSE, <<>>, TRUE, r) : r \in PayloadResults}
    \cup {Json("object", TRUE, h, TRUE, r) : h \in PayloadHistories, r \in PayloadResults}

\* the action strings of manage_context
ContextAction(verb, payload) == [verb |-> verb, payload |-> payload]
GetAction == ContextAction("get", NoPayload)
UpdateActions == {ContextAction("update:", payload) : payload \in Payloads}
OtherAction == ContextAction("reset", NoPayload)

\* _update_conversation_history with pop() in place of pop(0)
update_conversation_history_popsNewest(history, question, answer) ==
    LET appended == Append(history, Turn(question, answer)) IN
    IF Len(appended) > HistoryLimit
    THEN SubSeq(appended, 1, Len(appended) - 1)
    ELSE appended

\* _update_conversation_history: append, then pop(0) when more than 10
update_conversation_history(history, question, answer) ==
    LET appended == Append(history, Turn(question, answer)) IN
    IF Len(appended) > HistoryLimit THEN Tail(appended) ELSE appended

\* _get_context: json.dumps of the two fields
get_context(history, result) == <<"json", history, result>>

\* _update_context with context_dict.get(key, <initial value>)
update_context_defaultsAbsent(history, result, new_context) ==
    IF new_context.kind = "not json"
    THEN [conversation_history |-> history, last_query_result |-> result,
          returned |-> <<"Error: Invalid JSON format for context update">>]
    ELSE IF new_context.kind # "object"
    THEN [conversation_history |-> history, last_query_result |-> result,
          returned |-> <<"raised", "AttributeError">>]
    ELSE [conversation_history |->
              IF new_context.has_history THEN new_context.conversation_history
              ELSE <<>>,
          last_query_result |->
              IF new_context.has_result THEN new_context.last_query_result
              ELSE NoneVal,
          returned |-> <<"Context updated successfully">>]

\* _update_context: json.loads raising JSONDecodeError is caught (lines
\* 269-270); on a value that is no dict, context_dict.get raises
\* AttributeError before anything is assigned, and nothing catches it; on
\* a dict each field is context_dict.get(key, <current value>)
update_context(history, result, new_context) ==
    IF new_context.kind = "not json"
    THEN [conversation_history |-> history, last_query_result |-> result,
          returned |-> <<"Error: Invalid JSON format for context update">>]
    ELSE IF new_context.kind # "object"
    THEN [conversation_history |-> history, last_query_result |-> result,
          returned |-> <<"raised", "AttributeError">>]
    ELSE [conversation_history |->
              IF new_context.has_history THEN new_context.conversation_history
              ELSE history,
          last_query_result |->
              IF new_context.has_result THEN new_context.last_query_result
              ELSE result,
          returned |-> <<"Context updated successfully">>]

\* manage_context
manage_context(history, result, action) ==
    IF action.verb = "get"
    THEN [conversation_history |-> history, last_query_result |-> result,
          returned |-> get_context(history, result)]
    ELSE IF action.verb = "update:"
    THEN update_context(history, result, action.payload)
    ELSE [conversation_history |-> history, last_query_result |-> result,
          returned |-> <<"Invalid action. Use 'get' to retrieve context or 'update: <new_context>' to update it.">>]

\* a call of manage_context(action) and what it leaves behind
Manage(action) ==
    LET out == manage_context(conversation_history, last_query_result, action) IN
    /\ conversation_history' = out.conversation_history
    /\ last_query_result' = out.last_query_result
    /\ ctxCall' = [verb |-> action.verb, payload |-> action.payload,
                   turn |-> NoTurn, held |-> Len(conversation_history),
                   returned |-> out.returned]
    /\ UNCHANGED nonCtxVars

ManageGet ==
    /\ GetAction.verb = "get"
    /\ Manage(GetAction)

ManageUpdate ==
    \E action \in UpdateActions :
        /\ action.verb = "update:"
        /\ Manage(action)

ManageOther ==
    /\ OtherAction.verb \notin {"get", "update:"}
    /\ Manage(OtherAction)

\* a call of _update_conversation_history(question, answer)
AppendTurn ==
    /\ \E question \in Questions :
        /\ conversation_history' =
              update_conversation_history(conversation_history, question, Answer)
        /\ ctxCall' = [verb |-> "append", payload |-> NoPayload,
                       turn |-> Turn(question, Answer),
                       held |-> Len(conversation_history), returned |-> <<>>]
    /\ UNCHANGED last_query_result
    /\ UNCHANGED nonCtxVars

ContextNext ==
    \/ ManageGet
    \/ ManageUpdate
    \/ ManageOther
    \/ AppendTurn

ContextSpecInit == StreamIdle /\ WfInit /\ RestInit

ContextSpec == ContextSpecInit /\ [][ContextNext]_vars

----------------------------------------------------------------------------
(* SessionSpec: requests of several sessions call the context operations   *)
(* of the one SQLAgent that main.py:19 creates for the whole process       *)

\* payloads of the updates the sessions make: JSON objects
SessionPayloads ==
    {p \in Payloads : p.kind = "object" /\ Len(p.conversation_history) <= 1}

\* manage_context("update: ...") called for a request of session s: it
\* works on self.conversation_history / self.last_query_result of sql_agent
SessionUpdate ==
    \E s \in Sessions, payload \in SessionPayloads :
        LET action == ContextAction("update:", payload)
            out == manage_context(conversation_history, last_query_result, action)
            own == manage_context(sessionCtx[s].conversation_history,
                                  sessionCtx[s].last_query_result, action)
        IN  /\ conversation_history' = out.conversation_history
            /\ last_query_result' = out.last_query_result
            /\ ctxCall' = [verb |-> action.verb, payload |-> payload,
                           turn |-> NoTurn, held |-> Len(conversation_history),
                           returned |-> out.returned]
            /\ sessionCtx' = [sessionCtx EXCEPT ![s] =
                                  Context(own.conversation_history,
                                          own.last_query_result)]
            /\ UNCHANGED lastRead
            /\ UNCHANGED <<streamVars, wfVars, tableVars, rateVars, ledgerVars, batchVars, concVars>>

\* manage_context("get") called for a request of session s
SessionGet ==
    \E s \in Sessions :
        LET out == manage_context(conversation_history, last_query_result,
                                  GetAction)
        IN  /\ lastRead' = [session |-> s, returned |-> out.returned]
            /\ ctxCall' = [verb |-> "get", payload |-> NoPayload,
                           turn |-> NoTurn, held |-> Len(conversation_history),
                           returned |-> out.returned]
            /\ UNCHANGED <<conversation_history, last_query_result, sessionCtx>>
            /\ UNCHANGED <<streamVars, wfVars, tableVars, rateVars, ledgerVars, batchVars, concVars>>

SessionNext ==
    \/ SessionUpdate
    \/ SessionGet

SessionSpecInit == StreamIdle /\ WfInit /\ RestInit

SessionSpec == SessionSpecInit /\ [][SessionNext]_vars

----------------------------------------------------------------------------
(* Claims about the status stream (StreamSpec)                             *)

Terminal(ev) == ev.step \in {"Final Answer", "Error"}
TerminalCount(s) == Cardinality({i \in 1..Len(s) : Terminal(s[i])})
IsYield(e) == e.kind = "yield"
\* the (step, message) pairs process_query yielded, in order
AgentYields == SelectSeq(log, IsYield)
YieldedStep(step) == \E i \in 1..Len(log) : IsYield(log[i]) /\ log[i].name = step
\* what sql_agent.get_final_answer() returns to main.py:29
ReturnedAnswer == IF patched THEN mockReturn ELSE get_final_answer(final_answer)

\* C1 (as claimed): the finished stream of a request served by SQLAgent has
\* at least one event, exactly one terminal event (Final Answer or Error),
\* and that terminal event is its last event.
CX_C1_OneTerminalLast ==
    (pc = "done" /\ ~patched) =>
        /\ Len(stream) >= 1
        /\ TerminalCount(stream) = 1
        /\ Terminal(stream[Len(stream)])

\* C2: when the agent yielded n >= 1 updates, the finished stream is those n
\* updates in the order they were yielded, followed by one Final Answer
\* event: n + 1 lines.
T_C2_UpdatesThenFinalAnswer ==
    (pc = "done" /\ Len(AgentYields) >= 1) =>
        LET n == Len(AgentYields) IN
        /\ Len(stream) = n + 1
        /\ \A i \in 1..n : stream[i] = Event(AgentYields[i].name,
                                             AgentYields[i].message)
        /\ stream[n + 1].step = "Final Answer"

W_C2_ThreeUpdatesDone ==
    /\ pc = "done"
    /\ Len(AgentYields) = 3
    /\ Len(stream) = 4

\* C3: when the agent yielded no update at all, the finished stream is
\* exactly two lines: a Final Answer carrying what get_final_answer
\* returned, then an Error 'No updates received from the SQL agent'.
T_C3_NoUpdatesTwoLines ==
    (pc = "done" /\ Len(AgentYields) = 0) =>
        stream = <<Event("Final Answer", ReturnedAnswer.v),
                   Event("Error", <<"No updates received from the SQL agent">>)>>

W_C3_NoUpdatesDone ==
    /\ pc = "done"
    /\ Len(AgentYields) = 0
    /\ Len(stream) = 2

\* C4: in every request processed by SQLAgent.process_query, Initializing
\* is the first thing the generator does (before any call of the retriever
\* or the backend), Processing is yielded at most once, and every
\* Executing, Intermediate Step and Finalizing event comes after it.
T_C4_InitializingFirstProcessingBeforeLoop ==
    (~patched /\ log # <<>>) =>
        /\ log[1] = Yielded(InitializingEv)
        /\ \A i \in 2..Len(log) : log[i].name # "Initializing"
        /\ Cardinality({i \in 1..Len(log) : log[i] = Yielded(ProcessingEv)}) <= 1
        /\ \A i \in 1..Len(log) :
              (IsYield(log[i]) /\ log[i].name \in
                   {"Executing", "Intermediate Step", "Finalizing"}) =>
                  \E j \in 1..(i - 1) : log[j] = Yielded(ProcessingEv)

W_C4_LoopEventsSeen ==
    /\ ~patched
    /\ YieldedStep("Executing")
    /\ YieldedStep("Intermediate Step")
    /\ YieldedStep("Finalizing")
    /\ \E i \in 1..Len(log) : log[i] = Called("backend")

\* C5 (as claimed): in every stream of SQLAgent a Final Answer has a
\* Finalizing event directly before it, and nothing but the terminal event
\* follows a Finalizing event.
CX_C5_FinalizingBeforeTerminal ==
    (pc = "done" /\ ~patched) =>
        \A i \in 1..Len(stream) :
            /\ stream[i].step = "Final Answer" =>
                  (i > 1 /\ stream[i - 1].step = "Finalizing")
            /\ (stream[i].step = "Finalizing" /\ i < Len(stream)) =>
                  (Terminal(stream[i + 1]) /\ i + 1 = Len(stream))

\* C6 (as claimed): when the retriever or the backend raised, the Error
\* event carrying the cause is the last event of the finished stream.
CX_C6_ErrorIsTerminal ==
    (pc = "done" /\ ~patched /\ YieldedStep("Error")) =>
        \E e \in Exceptions : stream[Len(stream)] = ErrorEv(e)

\* C7 (as claimed): a request cancelled after its backend call was issued
\* has its stream closed by an Error terminal event.
CX_C7_CancelledEndsWithError ==
    (pc = "cancelled" /\ \E i \in 1..Len(log) : log[i] = Called("backend")) =>
        (stream # <<>> /\ stream[Len(stream)].step = "Error")

----------------------------------------------------------------------------
(* Claims about the correction workflow (WorkflowSpec)                     *)

\* C8: a request takes at most RecursionLimit (100) supersteps, every return
\* to query_gen being one of them, so it makes at most that many Regenerate
\* cycles; a request that has used them all without reaching END ends with
\* GraphRecursionError (the budget-exhausted error), writing nothing more.
StepWithinCeiling ==
    node \in GraphNodes =>
        \/ /\ steps < RecursionLimit
           /\ steps' = steps + 1
           /\ node' \in GraphNodes \cup {"END"}
        \/ /\ steps = RecursionLimit
           /\ node' = "raised"
           /\ outcome' = "GraphRecursionError"
           /\ UNCHANGED <<query_cache, query_feedback, storeRuns>>

T_C8_CeilingThenRecursionError == [][StepWithinCeiling]_vars

W_C8_BudgetExhausted ==
    /\ node = "raised"
    /\ outcome = "GraphRecursionError"
    /\ steps = RecursionLimit

\* text.strip() on token sequences: leading whitespace removed
RECURSIVE lstrip(_)
lstrip(text) ==
    IF text # <<>> /\ Head(text) = " " THEN lstrip(Tail(text)) ELSE text

\* a statement of a mutating kind (insert/update/delete/ddl)
Mutating(query) ==
    /\ lstrip(query) # <<>>
    /\ Head(lstrip(query)) \in {"INSERT", "UPDATE", "DELETE", "DROP", "ALTER", "CREATE"}

\* C9 (as claimed): a statement of a mutating kind is never executed
\* against the store and leaves no cache entry and no feedback record.
CX_C9_MutatingNeverExecuted ==
    \A q \in QueryTexts :
        Mutating(q) =>
            /\ storeRuns[q] = 0
            /\ fetchone(query_cache, md5(q)) = NoRow
            /\ ~feedback_row(query_feedback, md5(q)).present

\* the query of the db_query_tool call that execute_query is about to run
PendingQuery == messages[Len(messages)].tool_calls[1].query
\* the step of execute_query for a query whose result is cached
CacheHitStep ==
    /\ node = "execute_query"
    /\ node' = "query_gen"
    /\ (lru[PendingQuery] # NoRow \/ fetchone(query_cache, md5(PendingQuery)) # NoRow)
CachedResult ==
    IF lru[PendingQuery] # NoRow THEN lru[PendingQuery]
    ELSE fetchone(query_cache, md5(PendingQuery))

\* C10 (as claimed): on a cache hit the cached result is returned, the
\* store is not executed and the signature's success_count grows by one.
HitRecordsSuccess ==
    CacheHitStep =>
        /\ messages' = <<ToolMessage(CachedResult)>>
        /\ storeRuns' = storeRuns
        /\ feedback_row(query_feedback', md5(PendingQuery)).success_count =
              feedback_row(query_feedback, md5(PendingQuery)).success_count + 1

HitLeavesFeedback ==
    CacheHitStep =>
        /\ messages' = <<ToolMessage(CachedResult)>>
        /\ storeRuns' = storeRuns
        /\ query_feedback' = query_feedback
        /\ query_cache' = query_cache

WrittenResultStays ==
    \A q \in QueryTexts :
        fetchone(query_cache, md5(q)) # NoRow =>
            /\ \A q2 \in QueryTexts : q2 = q <=> md5(q2) = md5(q)
            /\ fetchone(query_cache', md5(q)) = fetchone(query_cache, md5(q))
            /\ lru[q] \in {NoRow, fetchone(query_cache, md5(q))}
            /\ (node = "execute_query" /\ node' = "query_gen" /\ PendingQuery = q) =>
                    messages' = <<ToolMessage(fetchone(query_cache, md5(q)))>>

T_C11_WrittenResultStays == [][WrittenResultStays]_vars

\* a text is looked up again after a restart emptied the lru_cache and
\* after another signature was written; the store ran once for it
W_C11_LookedUpAgain ==
    /\ node = "query_gen"
    /\ servedFrom = "sqlite"
    /\ storeRuns[SelectQuery] = 1
    /\ storeRuns[DeleteQuery] = 1
    /\ messages = <<ToolMessage(fetchone(query_cache, md5(SelectQuery)))>>
    /\ fetchone(query_cache, md5(SelectQuery)) # fetchone(query_cache, md5(DeleteQuery))

----------------------------------------------------------------------------
(* Claims about the cache table (CacheTableSpec)                           *)

RowsOf(table, query_hash) == {row \in table : row.query_hash = query_hash}

\* C12: the cache table holds at most one row per signature; a put for a
\* signature leaves exactly one row for it, holding the result just put (an
\* existing row is overwritten, no row is added to it), and the rows of
\* every other signature are the same before and after.
PutOverwrites ==
    LET query_hash == lastPut'.query_hash IN
    /\ \A h \in Hashes : Cardinality(RowsOf(query_cache', h)) <= 1
    /\ Cardinality(RowsOf(query_cache', query_hash)) = 1
    /\ fetchone(query_cache', query_hash) = lastPut'.result
    /\ \A h \in Hashes \ {query_hash} :
            RowsOf(query_cache', h) = RowsOf(query_cache, h)

T_C12_PutOverwrites == [][PutOverwrites]_vars

\* a put has overwritten another result of its signature while a row of
\* another signature was in the table
W_C12_Overwritten ==
    /\ lastPut # NoPut
    /\ lastPut.before \notin {NoRow, lastPut.result}
    /\ fetchone(query_cache, lastPut.query_hash) = lastPut.result
    /\ \E h \in Hashes \ {lastPut.query_hash} : RowsOf(query_cache, h) # {}

----------------------------------------------------------------------------
(* Claims about the feedback ledger (LedgerSpec)                           *)

\* C13: success_count and failure_count are never negative and no record
\* operation lowers either of them; a signature has at most one record, and
\* a record, once there, is neither removed nor reset.
CountersOnlyGrow ==
    \A h \in Hashes :
        LET old == feedback_row(query_feedback, h)
            new == feedback_row(query_feedback', h)
        IN  /\ Cardinality(RowsOf(query_feedback', h)) <= 1
            /\ old.present => new.present
            /\ 0 <= old.success_count /\ old.success_count <= new.success_count
            /\ 0 <= old.failure_count /\ old.failure_count <= new.failure_count

T_C13_CountersOnlyGrow == [][CountersOnlyGrow]_vars

\* one signature took successes and failures in turn, another has a record
W_C13_BothCountersGrown ==
    \E h \in Hashes :
        /\ feedback_row(query_feedback, h).success_count >= 2
        /\ feedback_row(query_feedback, h).failure_count >= 2
        /\ \E h2 \in Hashes \ {h} : feedback_row(query_feedback, h2).present

----------------------------------------------------------------------------
(* Claims about the rate limiter (RateSpec, ConcurrentRateSpec)            *)

\* C14 (as claimed): whatever the calls before it did (cache hit, backend
\* raised), every backend invocation starts at least min_delay after the
\* backend invocation before it was granted.
CX_C14_SpacedInvocations ==
    \A i \in 2..Len(invocations) :
        invocations[i].started - invocations[i - 1].granted >= min_delay

\* C15 (as claimed): concurrent callers share one rate window: no two of
\* them are past the rate check with grants less than min_delay apart.
CX_C15_ConcurrentGrantsSpaced ==
    \A c1, c2 \in Callers :
        (c1 # c2 /\ callPc[c1] \in {"granted", "invoking"}
                 /\ callPc[c2] \in {"granted", "invoking"}) =>
            \/ grantedAt[c1] - grantedAt[c2] >= min_delay
            \/ grantedAt[c2] - grantedAt[c1] >= min_delay

----------------------------------------------------------------------------
(* Claims about the conversation context (ContextSpec, StreamSpec)         *)

\* C16: _update_conversation_history called while 10 turns are held drops
\* exactly the oldest one: 10 turns are held after it, the new turn is the
\* last, and the nine others are the former turns 2..10 in their order;
\* called while fewer than 10 are held it drops nothing and adds the new
\* turn at the end.
AppendEvictsOldest ==
    ctxCall'.verb = "append" =>
        LET old == conversation_history
            new == conversation_history'
        IN  /\ Len(old) = HistoryLimit =>
                /\ Len(new) = HistoryLimit
                /\ new[HistoryLimit] = ctxCall'.turn
                /\ \A i \in 1..(HistoryLimit - 1) : new[i] = old[i + 1]
            /\ Len(old) < HistoryLimit =>
                /\ Len(new) = Len(old) + 1
                /\ new[Len(new)] = ctxCall'.turn
                /\ \A i \in 1..Len(old) : new[i] = old[i]

T_C16_AppendEvictsOldest == [][AppendEvictsOldest]_vars

\* a turn was appended to a full history whose turns are not all the same
W_C16_AppendedToFullHistory ==
    /\ ctxCall.verb = "append"
    /\ ctxCall.held = HistoryLimit
    /\ Len(conversation_history) = HistoryLimit
    /\ conversation_history[HistoryLimit] = ctxCall.turn
    /\ \E i \in 1..(HistoryLimit - 1) : conversation_history[i] # ctxCall.turn

\* C17 (as claimed): whatever context operations were called, the history
\* holds at most 10 turns.
CX_C17_HistoryBounded == Len(conversation_history) <= HistoryLimit

\* C18: a context update whose payload is a JSON object merges only the
\* fields it supplies: a field that is present replaces the current value
\* (by null as well), a field that is absent keeps its value.
UpdateMergesSupplied ==
    (ctxCall'.verb = "update:" /\ ctxCall'.payload.kind = "object") =>
        LET supplied == ctxCall'.payload IN
        /\ supplied.has_history =>
              conversation_history' = supplied.conversation_history
        /\ ~supplied.has_history =>
              conversation_history' = conversation_history
        /\ supplied.has_result =>
              last_query_result' = supplied.last_query_result
        /\ ~supplied.has_result =>
              last_query_result' = last_query_result
        /\ ctxCall'.returned = <<"Context updated successfully">>

T_C18_UpdateMergesSupplied == [][UpdateMergesSupplied]_vars

\* an update that supplied only the history was applied while a result was
\* held: the history is the supplied one, the result is still there
W_C18_OnlyHistorySupplied ==
    /\ ctxCall.verb = "update:"
    /\ ctxCall.payload.kind = "object"
    /\ ctxCall.payload.has_history /\ ~ctxCall.payload.has_result
    /\ ctxCall.held > Len(ctxCall.payload.conversation_history)
    /\ conversation_history = ctxCall.payload.conversation_history
    /\ last_query_result # NoneVal

\* C19 (as claimed): an update whose payload is malformed (a text that is
\* not JSON, or JSON that is not an object) ends with the format-error
\* result, with the history and the last result as they were.
MalformedIsFormatError ==
    (ctxCall'.verb = "update:" /\ ctxCall'.payload.kind # "object") =>
        /\ ctxCall'.returned = <<"Error: Invalid JSON format for context update">>
        /\ conversation_history' = conversation_history
        /\ last_query_result' = last_query_result

CX_C19_MalformedIsFormatError == [][MalformedIsFormatError]_vars

\* C20 (as claimed): a request of SQLAgent that ends with a Final Answer,
\* no Error before it, has added its turn to the conversation history by
\* the time that event is emitted.
CX_C20_FinalAnswerAppendsTurn ==
    (/\ pc = "done" /\ ~patched /\ stream # <<>>
     /\ stream[Len(stream)].step = "Final Answer"
     /\ \A i \in 1..Len(stream) : stream[i].step # "Error") =>
        Len(conversation_history) >= 1

----------------------------------------------------------------------------
(* Claims about sessions (SessionSpec)                                     *)

\* C21 (as claimed): the context a session reads is the one its own
\* operations made: no mutation made for another session shows in it.
CX_C21_SessionReadsOwnContext ==
    lastRead # NoRead =>
        lastRead.returned =
            get_context(sessionCtx[lastRead.session].conversation_history,
                        sessionCtx[lastRead.session].last_query_result)

----------------------------------------------------------------------------
(* Claims about the client-side cache (RateSpec)                           *)

\* C22: once an invocation for an input has returned, every later call of
\* rate_limited_agent_invoke with that input in the same process returns
\* the result of that first invocation and starts no backend invocation.
RepeatServedFromCache ==
    /\ Len(invocations') > Len(invocations) =>
          answered[invocations'[Len(invocations')].input] = NoResult
    /\ \A c \in Callers :
          (callPc[c] # "idle" /\ callPc'[c] = "idle" /\ ret'[c] \in Results) =>
              ret'[c] = answered'[callInput[c]]

T_C22_RepeatServedFromCache == [][RepeatServedFromCache]_vars

\* two calls were made with one input, the backend was invoked once, and
\* the second call returned the first one's result
W_C22_SecondCallCached ==
    /\ \A c \in Callers : callPc[c] = "idle"
    /\ callCount = 2
    /\ Len(invocations) = 1
    /\ \E c \in Callers :
          /\ ret[c] \in Results
          /\ callInput[c] = invocations[1].input
          /\ ret[c] = answered[callInput[c]]
          /\ \A c2 \in Callers \ {c} : ret[c2] = "unset"

----------------------------------------------------------------------------
(* Claims about interrupted requests (InterruptSpec)                       *)

\* C23 (as claimed): also when a request is interrupted inside Execute, a
\* signature has no feedback count without the cache entry of the step
\* that recorded it.
CX_C23_NoFeedbackWithoutEntry ==
    \A q \in QueryTexts :
        feedback_row(query_feedback, md5(q)).present =>
            fetchone(query_cache, md5(q)) # NoRow

----------------------------------------------------------------------------
(* Claims about what the caller is told (StreamSpec)                       *)

\* C24 (as claimed): no Final Answer event of a request served by SQLAgent
\* carries a text that contains the raw query text of the request.
CX_C24_NoQueryInFinalAnswer ==
    ~patched =>
        \A i \in 1..Len(stream) :
            stream[i].step = "Final Answer" =>
                \A j \in 1..Len(stream[i].message) :
                    stream[i].message[j] \notin TextsWithQuery

----------------------------------------------------------------------------
(* Claims about Execute and the signature (WorkflowSpec)                   *)

\* the step of execute_query for a query whose result is not cached
CacheMissStep ==
    /\ node = "execute_query"
    /\ node' = "query_gen"
    /\ lru[PendingQuery] = NoRow
    /\ fetchone(query_cache, md5(PendingQuery)) = NoRow

\* C25 (as claimed): on a cache miss the store runs the query once and one
\* counter of its signature grows by one: success_count when rows came
\* back, which are then cached; failure_count, and not success_count, when
\* the result was empty or the execution failed; the next node is query_gen.
MissRecordsOutcome ==
    CacheMissStep =>
        LET old == feedback_row(query_feedback, md5(PendingQuery))
            new == feedback_row(query_feedback', md5(PendingQuery))
            result == messages'[1].content
        IN  /\ storeRuns'[PendingQuery] = storeRuns[PendingQuery] + 1
            /\ IF result = RowsResult
               THEN /\ new.success_count = old.success_count + 1
                    /\ new.failure_count = old.failure_count
                    /\ fetchone(query_cache', md5(PendingQuery)) = result
               ELSE /\ new.failure_count = old.failure_count + 1
                    /\ new.success_count = old.success_count

CX_C25_MissRecordsOutcome == [][MissRecordsOutcome]_vars

\* text.strip() on token sequences
RECURSIVE rstrip(_)
rstrip(text) ==
    IF text # <<>> /\ text[Len(text)] = " "
    THEN rstrip(SubSeq(text, 1, Len(text) - 1)) ELSE text
strip(text) == rstrip(lstrip(text))

\* C26 (as claimed): two query texts that differ only in leading or
\* trailing whitespace have one signature: they share their cache entry
\* and their feedback record.
CX_C26_TrimmedTextsShareSignature ==
    \A q1, q2 \in QueryTexts :
        strip(q1) = strip(q2) =>
            /\ fetchone(query_cache, md5(q1)) = fetchone(query_cache, md5(q2))
            /\ feedback_row(query_feedback, md5(q1)) =
                  feedback_row(query_feedback, md5(q2))

----------------------------------------------------------------------------
(* Claims about Verify and Generate (WorkflowSpec)                         *)

\* C27 (as claimed): a candidate that Verify must reject (a statement of a
\* mutating kind) is not passed on to Execute: from correct_query the
\* machine goes back to query_gen, one step of the ceiling spent.
VerifyFailureRoutesBack ==
    (/\ node = "correct_query"
     /\ WithinLimit
     /\ Mutating(messages[Len(messages)].content)) =>
        /\ node' = "query_gen"
        /\ steps' = steps + 1

CX_C27_VerifyFailureRoutesBack == [][VerifyFailureRoutesBack]_vars

\* the tool calls of a message that are not the submit-answer action
WrongCalls(message) ==
    {i \in 1..Len(message.tool_calls) :
        message.tool_calls[i].name # "SubmitFinalAnswer"}

\* C28: when the reply of the backend in query_gen holds a tool call other
\* than SubmitFinalAnswer, alone or next to a SubmitFinalAnswer call, the
\* request does not end there: a correction message naming each wrong tool
\* follows the reply, and the next node is query_gen again.
WrongToolRoutedBack ==
    (/\ node = "query_gen"
     /\ WithinLimit
     /\ WrongCalls(messages'[1]) # {}) =>
        /\ node' = "query_gen"
        /\ outcome' = outcome
        /\ \A i \in WrongCalls(messages'[1]) :
              \E k \in 2..Len(messages') :
                  messages'[k] =
                      ToolMessage(WrongToolText(messages'[1].tool_calls[i].name))

T_C28_WrongToolRoutedBack == [][WrongToolRoutedBack]_vars

\* the backend called sql_db_query next to SubmitFinalAnswer and the
\* machine is back in query_gen with the correction message
W_C28_WrongToolNextToSubmit ==
    /\ node = "query_gen"
    /\ messages = <<AIMessage(<<>>, <<SubmitCall, WrongCall>>),
                    ToolMessage(WrongToolText("sql_db_query"))>>
    /\ outcome = "none"

----------------------------------------------------------------------------
(* Claims about rate limiting of the API (StreamSpec)                      *)

\* C29 (as claimed): every call of the backend made for a request is
\* preceded, in that request, by an acquisition of the rate limiter.
CX_C29_BackendCallRateLimited ==
    \A i \in 1..Len(log) :
        log[i] = Called("backend") =>
            \E j \in 1..(i - 1) : log[j] = Called("rate_limiter")

----------------------------------------------------------------------------
(* Claims about concurrent feedback records (ConcurrentLedgerSpec)         *)

\* record_query_* calls of a kind that are inside their call for a query
InFlight(kind, query) ==
    Cardinality({c \in RecCallers : pending[c] = [kind |-> kind, query |-> query]})

\* C30: however the record_query_success and record_query_failure calls of
\* concurrent requests interleave, the record of a signature shows one
\* success per record_query_success call and one failure per
\* record_query_failure call made for it (those that returned and those
\* past their statement); it exists as soon as one was made, and there is
\* one record per signature. With no call in progress: exactly n and m.
RecordsCountCalls ==
    \A q \in LedgerQueries :
        LET row == feedback_row(query_feedback, md5(q))
            n == returned[q].success + InFlight("success", q)
            m == returned[q].failure + InFlight("failure", q)
        IN  /\ row.success_count = n
            /\ row.failure_count = m
            /\ row.present <=> (n + m > 0)
            /\ Cardinality(RowsOf(query_feedback, md5(q))) <= 1

T_C30_RecordsCountCalls == RecordsCountCalls

\* calls of both kinds for one signature have returned, more are in
\* progress at the same time, and another signature has a record
W_C30_InterleavedRecords ==
    \E q \in LedgerQueries :
        /\ returned[q].success >= 1
        /\ returned[q].failure >= 1
        /\ InFlight("success", q) = 1
        /\ InFlight("failure", q) = 1
        /\ \E q2 \in LedgerQueries \ {q} :
              feedback_row(query_feedback, md5(q2)).present

----------------------------------------------------------------------------
(* Claims about a request with several candidates (WorkflowSpec)           *)

\* what db_query_tool returns, and the wrapper stores, for a failed execution
FailedResults == {QueryFailedText, ExceptionResult}

\* the candidate was executed against the store once, with a result in results
ExecutedOnceWith(q, results) ==
    /\ storeRuns[q] = 1
    /\ fetchone(query_cache, md5(q)) \in results

\* C31 (as claimed): when Execute failed for two distinct candidates and
\* succeeded for a third, each executed once, the record of the successful
\* candidate shows failure_count 0 and success_count 1 and the record of each
\* failing candidate shows its own failure (failure_count 1) and no success.
CX_C31_FailuresThenSuccess ==
    \A ok \in QueryTexts :
        (/\ ExecutedOnceWith(ok, {RowsResult})
         /\ \A q \in QueryTexts \ {ok} : ExecutedOnceWith(q, FailedResults)) =>
            /\ feedback_row(query_feedback, md5(ok)) =
                   [present |-> TRUE, success_count |-> 1, failure_count |-> 0]
            /\ \A q \in QueryTexts \ {ok} :
                   feedback_row(query_feedback, md5(q)) =
                       [present |-> TRUE, success_count |-> 0, failure_count |-> 1]

----------------------------------------------------------------------------
(* Claims about query batching (BatchSpec)                                 *)

\* C32 (as claimed): no entry leaves the queue without being part of the
\* batch handed to the backend: what a process_query_batch call took off
\* the queue is its batch, entries that waited longer than BATCH_TIMEOUT
\* included.
DequeuedIsSubmitted ==
    (enqueued' = enqueued /\ ticks' = ticks) =>
        Len(query_queue) - Len(query_queue') = Len(lastBatch'.batch)

CX_C32_DequeuedIsSubmitted == [][DequeuedIsSubmitted]_vars

\* a step of process_query_batch (the other actions count a call or a tick)
BatchStep == enqueued' = enqueued /\ ticks' = ticks

\* the entries a step took off the front of the queue
Popped == SubSeq(query_queue, 1, Len(query_queue) - Len(query_queue'))

\* C32 (amended): an entry that has waited longer than BATCH_TIMEOUT when
\* process_query_batch pops it is dropped: it is in neither the batch nor
\* the queue afterwards. The popped entries that have waited BATCH_TIMEOUT
\* or less are the batch, in their order, and nothing but popped entries
\* leaves the queue.
ExpiredAreDropped ==
    BatchStep =>
        /\ Len(query_queue') <= Len(query_queue)
        /\ query_queue' = SubSeq(query_queue, Len(Popped) + 1, Len(query_queue))
        /\ lastBatch'.popped = Len(Popped)
        /\ lastBatch'.batch =
               SelectSeq(Popped, LAMBDA e : now - e.enqueue_time <= BATCH_TIMEOUT)
        /\ \A i \in 1..Len(Popped) :
               now - Popped[i].enqueue_time > BATCH_TIMEOUT =>
                   /\ \A j \in 1..Len(lastBatch'.batch) :
                          lastBatch'.batch[j] # Popped[i]
                   /\ \A j \in 1..Len(query_queue') :
                          query_queue'[j] # Popped[i]

T_C32_ExpiredAreDropped == [][ExpiredAreDropped]_vars

\* a call popped an entry that had expired and one that had not: the batch
\* is shorter than what was popped, and agent.invoke was called with it
W_C32_ExpiredDroppedNextToSubmitted ==
    /\ lastBatch.popped > Len(lastBatch.batch)
    /\ lastBatch.batch # <<>>
    /\ lastBatch.invoked

\* the entries of a queue that have not waited longer than BATCH_TIMEOUT
NotExpired(queue) ==
    SelectSeq(queue, LAMBDA e : now - e.enqueue_time <= BATCH_TIMEOUT)

\* C36: a call of process_query_batch builds its batch from the first
\* MAX_BATCH_SIZE entries of the queue that have not expired, in queue
\* order, or from all of them when they are fewer; what stays queued is an
\* end piece of the queue, holding every other entry that has not expired;
\* and with an empty batch the call returns None, agent.invoke is not
\* called, and the cache and last_call_time stay as they were.
BatchIsFifoPrefix ==
    BatchStep =>
        LET fresh == NotExpired(query_queue)
            k == IF Len(fresh) < MAX_BATCH_SIZE THEN Len(fresh) ELSE MAX_BATCH_SIZE
        IN  /\ Len(lastBatch'.batch) <= MAX_BATCH_SIZE
            /\ lastBatch'.batch = SubSeq(fresh, 1, k)
            /\ Len(query_queue') <= Len(query_queue)
            /\ query_queue' = SubSeq(query_queue,
                                     Len(query_queue) - Len(query_queue') + 1,
                                     Len(query_queue))
            /\ NotExpired(query_queue') = SubSeq(fresh, k + 1, Len(fresh))
            /\ lastBatch'.batch = <<>> =>
                   /\ lastBatch'.ret = "None"
                   /\ ~lastBatch'.invoked
                   /\ batch_cache' = batch_cache
                   /\ last_call_time' = last_call_time

T_C36_BatchIsFifoPrefix == [][BatchIsFifoPrefix]_vars

\* six queries were queued and a call took the first five: its batch is
\* full and the sixth is still queued
W_C36_FullBatchOneLeft ==
    /\ Len(lastBatch.batch) = MAX_BATCH_SIZE
    /\ lastBatch.popped = MAX_BATCH_SIZE
    /\ Len(query_queue) = 1
    /\ enqueued = MAX_BATCH_SIZE + 1

----------------------------------------------------------------------------
(* Claims about the stored final answer (StreamSpec)                       *)

\* the current request's agent run produced an output chunk (line 229 is
\* followed by the yield of Finalizing)
ProducedOutput == \E i \in 1..Len(log) : log[i] = Yielded(FinalizingEv)

\* C34 (as claimed): the Final Answer of a request whose agent run produced
\* no output is what get_final_answer gives for no stored answer, never an
\* answer stored by an earlier request.
CX_C34_NoCarriedOverAnswer ==
    (~patched /\ ~ProducedOutput) =>
        \A i \in 1..Len(stream) :
            stream[i].step = "Final Answer" =>
                stream[i] = FinalAnswerEv(get_final_answer(NoneVal))

----------------------------------------------------------------------------
(* Claims about concurrent requests (ConcurrentStreamSpec)                 *)

\* C33 (as claimed): the Final Answer a request is sent carries the output
\* of its own agent run, whatever the other requests did meanwhile.
CX_C33_FinalAnswerIsOwnOutput ==
    \A r \in Requests :
        (reqPc[r] = "done" /\ reqOutput[r] # NoneVal) =>
            reqFinal[r] = FinalAnswerEv(first_text(get_final_answer(reqOutput[r])))

----------------------------------------------------------------------------
(* Claims about what the query cache holds (WorkflowSpec)                  *)

\* C35 (as claimed): the cache, in sqlite and in the lru_cache in front of
\* it, holds nothing but the rows of successful executions: no entry is
\* made for an execution that returned nothing or failed.
CX_C35_CacheHoldsOnlySuccesses ==
    \A q \in QueryTexts :
        /\ fetchone(query_cache, md5(q)) \in {NoRow, RowsResult}
        /\ lru[q] \in {NoRow, RowsResult}

----------------------------------------------------------------------------
(* Claims about a backend that raises (RateSpec)                           *)

\* C37: a call whose agent.invoke does not return a result returns None and
\* leaves query_cache as it was, without an entry for its input; and a call
\* that finds no entry for its input invokes the backend with that input.
RaiseLeavesCacheAlone ==
    \A c \in Callers :
        /\ (callPc[c] = "invoking" /\ callPc'[c] = "idle"
            /\ ret'[c] \notin Results) =>
               /\ ret'[c] = "None"
               /\ client_cache' = client_cache
               /\ client_cache'[callInput[c]] = NoResult
        /\ (callPc[c] = "granted" /\ callPc'[c] # "granted"
            /\ client_cache[callInput[c]] = NoResult) =>
               /\ callPc'[c] = "invoking"
               /\ invocations' = Append(invocations, invocations'[Len(invocations')])
               /\ invocations'[Len(invocations')].input = callInput[c]

T_C37_RaiseLeavesCacheAlone == [][RaiseLeavesCacheAlone]_vars

\* a call returned None, and a later call with the same input is inside
\* agent.invoke: the backend was invoked twice with that input
W_C37_InvokedAgainAfterRaise ==
    \E c1, c2 \in Callers :
        /\ c1 # c2
        /\ ret[c1] = "None"
        /\ callPc[c2] = "invoking"
        /\ callInput[c2] = callInput[c1]
        /\ Len(invocations) = 2
        /\ invocations[1].input = callInput[c1]
        /\ invocations[2].input = callInput[c1]

----------------------------------------------------------------------------
(* Claims about the order of the workflow's nodes (WorkflowSpec)           *)

\* a node of the graph ran: one more superstep was taken
NodeRan == steps' = steps + 1

\* the last message is a backend message with tool calls, all of them the
\* submit-answer action
OnlySubmitCalls(msgs) ==
    LET last_message == msgs[Len(msgs)] IN
    /\ last_message.type = "ai"
    /\ last_message.tool_calls # <<>>
    /\ \A i \in 1..Len(last_message.tool_calls) :
          last_message.tool_calls[i].name = "SubmitFinalAnswer"

\* C38: execute_query is entered from correct_query only, by a node that
\* ran; a run of execute_query is followed by query_gen; and END is reached
\* only from query_gen, with a last message of the backend whose tool calls
\* are all SubmitFinalAnswer.
ExecuteBetweenVerifyAndGenerate ==
    /\ (node' = "execute_query" /\ node # "execute_query") =>
           (node = "correct_query" /\ NodeRan)
    /\ (node = "execute_query" /\ NodeRan) => node' = "query_gen"
    /\ (node' = "END" /\ node # "END") =>
           (node = "query_gen" /\ NodeRan /\ OnlySubmitCalls(messages'))

T_C38_ExecuteBetweenVerifyAndGenerate ==
    [][ExecuteBetweenVerifyAndGenerate]_vars

\* a request that went through correct_query, execute_query and query_gen
\* and then reached END on a submitted answer
W_C38_EndAfterExecute ==
    /\ node = "END"
    /\ steps >= 7
    /\ OnlySubmitCalls(messages)
    /\ \E q \in QueryTexts : storeRuns[q] >= 1

====
